---- MODULE Spec2Model ----
(***************************************************************************)
(* Model of cron-manager's metric upsert engine: the path lockers          *)
(* (internal/fslock), the MetricWriter (internal/exporter/metric.go) and   *)
(* the exposition file it rewrites.                                        *)
(*                                                                         *)
(* Text is modelled byte by byte: a string is a sequence of one-character  *)
(* strings, so that the regular-expression searches of the writer (which   *)
(* are substring searches, not line comparisons) and the template          *)
(* expansion of Regexp.ReplaceAll behave as in the Go code.                *)
(***************************************************************************)
EXTENDS Integers, Sequences, FiniteSets, TLC

(***************************************************************************)
(* Characters and generic string helpers.                                  *)
(***************************************************************************)
NL == "\n"

Digits == {"0", "1", "2", "3", "4", "5", "6", "7", "8", "9"}

Letters ==
  {"a", "b", "c", "d", "e", "f", "g", "h", "i", "j", "k", "l", "m", "n", "o",
   "p", "q", "r", "s", "t", "u", "v", "w", "x", "y", "z",
   "A", "B", "C", "D", "E", "F", "G", "H", "I", "J", "K", "L", "M", "N", "O",
   "P", "Q", "R", "S", "T", "U", "V", "W", "X", "Y", "Z"}

\* unicode.IsLetter || unicode.IsDigit || '_' : the characters of a group name
\* in a replacement template (regexp.extract).
WordChars == Letters \cup Digits \cup {"_"}

Min(S) == CHOOSE x \in S : \A y \in S : x <= y

\* s[i ..] starts with p
HasPrefixAt(s, p, i) ==
  /\ i >= 1
  /\ i + Len(p) - 1 <= Len(s)
  /\ \A k \in 1..Len(p) : s[i + k - 1] = p[k]

\* strings.Contains / bytes.Contains, and Regexp.Match of a QuoteMeta'd literal
Contains(s, p) == \E i \in 1..(Len(s) + 1) : HasPrefixAt(s, p, i)

Tail2(s, i) == SubSeq(s, i, Len(s))

\* first index >= i that is not in the run of characters satisfying the set cs
RECURSIVE RunEnd(_, _, _)
RunEnd(s, i, cs) ==
  IF i <= Len(s) /\ s[i] \in cs THEN RunEnd(s, i + 1, cs) ELSE i

\* strings.ReplaceAll(s, old, new): non-overlapping, left to right
RECURSIVE ReplaceAllFrom(_, _, _, _)
ReplaceAllFrom(s, old, new, i) ==
  IF i > Len(s) THEN <<>>
  ELSE IF HasPrefixAt(s, old, i)
       THEN new \o ReplaceAllFrom(s, old, new, i + Len(old))
       ELSE <<s[i]>> \o ReplaceAllFrom(s, old, new, i + 1)

stringsReplaceAll(s, old, new) == ReplaceAllFrom(s, old, new, 1)

(***************************************************************************)
(* Label escaping and label string (metric.go).                            *)
(***************************************************************************)
\* the substitutions in another order: quotes and newlines before backslashes
escapeLabelValueReordered(s) ==
  LET s1 == stringsReplaceAll(s, <<"\"">>, <<"\\", "\"">>)
      s2 == stringsReplaceAll(s1, <<NL>>, <<"\\", "n">>)
      s3 == stringsReplaceAll(s2, <<"\\">>, <<"\\", "\\">>)
  IN  s3

\* escapeLabelValue
escapeLabelValue(s) ==
  LET s1 == stringsReplaceAll(s, <<"\\">>, <<"\\", "\\">>)
      s2 == stringsReplaceAll(s1, <<"\"">>, <<"\\", "\"">>)
      s3 == stringsReplaceAll(s2, <<NL>>, <<"\\", "n">>)
  IN  s3

\* labels is the sequence of <<key, value>> pairs in the order the map is
\* iterated.
RECURSIVE labelPairs(_)
labelPairs(labels) ==
  IF labels = <<>> THEN <<>>
  ELSE <<",">> \o escapeLabelValue(labels[1][1]) \o <<"=", "\"">>
       \o escapeLabelValue(labels[1][2]) \o <<"\"">> \o labelPairs(Tail(labels))

\* the label pairs in one fixed order, whatever order the map was iterated in
buildLabelStringCanonical(jobName, labels) ==
  <<"n", "a", "m", "e", "=", "\"">> \o escapeLabelValue(jobName) \o <<"\"">>
  \o labelPairs(CHOOSE f \in [DOMAIN labels -> {labels[i] : i \in DOMAIN labels}] :
                  {f[i] : i \in DOMAIN labels} = {labels[i] : i \in DOMAIN labels})

buildLabelString(jobName, labels) ==
  <<"n", "a", "m", "e", "=", "\"">> \o escapeLabelValue(jobName) \o <<"\"">>
  \o labelPairs(labels)

\* fmt.Sprintf(`%s{%s} %s`, fullMetricName, labelStr, value)
MetricLine(fullMetricName, labelStr, value) ==
  fullMetricName \o <<"{">> \o labelStr \o <<"}", " ">> \o value

\* the literal that both line patterns start with: name\{labels\}
SampleIdentity(fullMetricName, labelStr) ==
  fullMetricName \o <<"{">> \o labelStr \o <<"}">>

(***************************************************************************)
(* Regexp.ReplaceAll: template expansion and the line patterns.            *)
(*                                                                         *)
(* Both patterns of the writer are  QuoteMeta(literal) + `.*\n` : the      *)
(* literal may start anywhere in the content, `.` does not match a newline *)
(* and the match ends at the first newline after the literal.  The         *)
(* patterns have no capture group, so in the replacement template only $0  *)
(* (and ${0}) names a group that exists; every other $name expands to the  *)
(* empty string, $$ to $, and a $ followed by no name stays a $.           *)
(***************************************************************************)
RECURSIVE ExpandFrom(_, _, _)
ExpandFrom(t, i, match0) ==
  IF i > Len(t) THEN <<>>
  ELSE IF t[i] # "$" THEN <<t[i]>> \o ExpandFrom(t, i + 1, match0)
  ELSE IF i + 1 <= Len(t) /\ t[i + 1] = "$"
       THEN <<"$">> \o ExpandFrom(t, i + 2, match0)
  ELSE LET brace == i + 1 <= Len(t) /\ t[i + 1] = "{"
           b     == IF brace THEN i + 2 ELSE i + 1
           e     == RunEnd(t, b, WordChars)
           ok    == e > b /\ (brace => (e <= Len(t) /\ t[e] = "}"))
           rest  == IF brace THEN e + 1 ELSE e
           name  == SubSeq(t, b, e - 1)
       IN  IF ~ok THEN <<"$">> \o ExpandFrom(t, i + 1, match0)
           ELSE (IF name = <<"0">> THEN match0 ELSE <<>>)
                \o ExpandFrom(t, rest, match0)

Expand(template, match0) == ExpandFrom(template, 1, match0)

NewlinesFrom(s, i) == {k \in i..Len(s) : s[k] = NL}

\* start positions >= i of matches of  literal.*\n
LineMatchStarts(s, lit, i) ==
  {j \in i..Len(s) : HasPrefixAt(s, lit, j) /\ NewlinesFrom(s, j + Len(lit)) # {}}

\* regexp.MustCompile(QuoteMeta(lit) + `.*\n`).Match(s)
LinePatternMatch(s, lit) == LineMatchStarts(s, lit, 1) # {}

RECURSIVE ReplaceLinesFrom(_, _, _, _)
ReplaceLinesFrom(s, lit, repl, i) ==
  LET starts == LineMatchStarts(s, lit, i)
  IN  IF starts = {} THEN Tail2(s, i)
      ELSE LET j == Min(starts)
               k == Min(NewlinesFrom(s, j + Len(lit)))
           IN  SubSeq(s, i, j - 1) \o Expand(repl, SubSeq(s, j, k))
               \o ReplaceLinesFrom(s, lit, repl, k + 1)

\* regexp.MustCompile(QuoteMeta(lit) + `.*\n`).ReplaceAll(s, repl)
LinePatternReplaceAll(s, lit, repl) == ReplaceLinesFrom(s, lit, repl, 1)

(***************************************************************************)
(* addMetricHeaders (metric.go).                                           *)
(***************************************************************************)
HelpData(fullMetricName, help) ==
  <<"#", " ", "H", "E", "L", "P", " ">> \o fullMetricName \o <<" ">> \o help

TypeData(fullMetricName, metricType) ==
  <<"#", " ", "T", "Y", "P", "E", " ">> \o fullMetricName \o <<" ">> \o metricType

addMetricHeaders(content, fullMetricName, metricType, help) ==
  LET helpData == HelpData(fullMetricName, help)
      typeData == TypeData(fullMetricName, metricType)
      c1 == IF ~Contains(content, helpData)
            THEN content \o helpData \o <<NL>> ELSE content
      c2 == IF ~Contains(c1, typeData)
            THEN c1 \o typeData \o <<NL>> ELSE c1
  IN  c2

(***************************************************************************)
(* Decimal arithmetic on digit strings.  strconv.ParseInt(s, 10, 64) and   *)
(* the int64 addition keep their 64-bit width: a magnitude above           *)
(* 9223372036854775807 is a parse error, and 9223372036854775807 + 1 wraps *)
(* to -9223372036854775808.                                                *)
(***************************************************************************)
DigitSeq == <<"0", "1", "2", "3", "4", "5", "6", "7", "8", "9">>

DigitVal(c) == (CHOOSE i \in 1..Len(DigitSeq) : DigitSeq[i] = c) - 1

Front(s) == SubSeq(s, 1, Len(s) - 1)

MaxInt64Str ==
  <<"9", "2", "2", "3", "3", "7", "2", "0", "3", "6", "8", "5", "4", "7", "7",
    "5", "8", "0", "7">>

MinInt64Magnitude ==
  <<"9", "2", "2", "3", "3", "7", "2", "0", "3", "6", "8", "5", "4", "7", "7",
    "5", "8", "0", "8">>

IsDigits(s) == Len(s) > 0 /\ \A i \in 1..Len(s) : s[i] \in Digits

RECURSIVE StripZeros(_)
StripZeros(d) ==
  IF Len(d) > 1 /\ d[1] = "0" THEN StripZeros(Tail(d)) ELSE d

RECURSIVE IncDigits(_)
IncDigits(d) ==
  IF d = <<>> THEN <<"1">>
  ELSE IF d[Len(d)] = "9" THEN IncDigits(Front(d)) \o <<"0">>
  ELSE Front(d) \o <<DigitSeq[DigitVal(d[Len(d)]) + 2]>>

\* d - 1 for a digit string of value >= 1
RECURSIVE DecDigits(_)
DecDigits(d) ==
  IF d[Len(d)] = "0" THEN DecDigits(Front(d)) \o <<"9">>
  ELSE Front(d) \o <<DigitSeq[DigitVal(d[Len(d)])]>>

\* a <= b for digit strings without leading zeros
DigitsLeq(a, b) ==
  \/ Len(a) < Len(b)
  \/ /\ Len(a) = Len(b)
     /\ \/ a = b
        \/ LET i == Min({k \in 1..Len(a) : a[k] # b[k]})
           IN  DigitVal(a[i]) < DigitVal(b[i])

\* strconv.ParseInt(s, 10, 64) succeeds
ParseIntOk(s) ==
  LET signed == Len(s) > 0 /\ s[1] \in {"+", "-"}
      mag    == IF signed THEN Tail(s) ELSE s
  IN  /\ IsDigits(mag)
      /\ DigitsLeq(StripZeros(mag),
                   IF signed /\ s[1] = "-" THEN MinInt64Magnitude ELSE MaxInt64Str)

\* fmt.Sprintf("%d", current+1) for a string ParseInt accepts
IntPlusOne(s) ==
  LET neg == s[1] = "-"
      mag == StripZeros(IF s[1] \in {"+", "-"} THEN Tail(s) ELSE s)
  IN  IF ~neg
      THEN IF mag = MaxInt64Str THEN <<"-">> \o MinInt64Magnitude
           ELSE IncDigits(mag)
      ELSE IF mag = <<"0">> THEN <<"1">>
           ELSE LET m == StripZeros(DecDigits(mag))
                IN  IF m = <<"0">> THEN m ELSE <<"-">> \o m

(***************************************************************************)
(* The decimal branch.  The model covers the unsigned forms digits.digits  *)
(* (either side may be empty, not both), which include every string the    *)
(* counter pattern can capture; float64 arithmetic is taken to be exact on *)
(* them (integer part below 10^13).  Signed, exponent and hexadecimal      *)
(* forms are outside the model.  A decimal tie in the third fractional     *)
(* digit is rounded by the binary value of the float, which the model does *)
(* not compute: tieUp chooses the outcome.                                 *)
(***************************************************************************)
DotPos(s) == Min({i \in 1..Len(s) : s[i] = "."})

ParseFloatOk(s) ==
  /\ Contains(s, <<".">>)
  /\ LET ip == SubSeq(s, 1, DotPos(s) - 1)
         fp == Tail2(s, DotPos(s) + 1)
     IN  /\ \A i \in 1..Len(ip) : ip[i] \in Digits
         /\ \A i \in 1..Len(fp) : fp[i] \in Digits
         /\ Len(ip) + Len(fp) > 0

\* fmt.Sprintf("%.2f", current+1.0) for a string ParseFloat accepts
FloatPlusOne(s, tieUp) ==
  LET ip   == SubSeq(s, 1, DotPos(s) - 1)
      fp   == Tail2(s, DotPos(s) + 1)
      int1 == StripZeros(IncDigits(IF ip = <<>> THEN <<"0">> ELSE ip))
      f1   == IF Len(fp) >= 1 THEN fp[1] ELSE "0"
      f2   == IF Len(fp) >= 2 THEN fp[2] ELSE "0"
      rest == Tail2(fp, 3)
      nonzero == {i \in 1..Len(rest) : rest[i] # "0"}
      up   == /\ nonzero # {}
              /\ \/ DigitVal(rest[1]) > 5
                 \/ rest[1] = "5" /\ (nonzero # {1} \/ tieUp)
      cents == IF up THEN IncDigits(int1 \o <<f1, f2>>) ELSE int1 \o <<f1, f2>>
  IN  SubSeq(cents, 1, Len(cents) - 2) \o <<".">>
      \o SubSeq(cents, Len(cents) - 1, Len(cents))

\* the decimal branch left out: every value goes through ParseInt
incrementValueIntOnly(currentStr, tieUp) ==
  IF ParseIntOk(currentStr) THEN IntPlusOne(currentStr) ELSE <<"1">>

\* MetricWriter.incrementValue
incrementValue(currentStr, tieUp) ==
  IF Contains(currentStr, <<".">>)
  THEN IF ParseFloatOk(currentStr) THEN FloatPlusOne(currentStr, tieUp)
       ELSE <<"1">>
  ELSE IF ParseIntOk(currentStr) THEN IntPlusOne(currentStr)
       ELSE <<"1">>

(***************************************************************************)
(* The content computed by the two write paths from the bytes they read.   *)
(* A request is a record [name, kind, job, labels, value, help]; for an    *)
(* IncrementCounter call kind is counter and value is "1", the arguments   *)
(* it passes to writeMetricNoLock when the file is missing.                *)
(***************************************************************************)
MetricTypeGauge == <<"g", "a", "u", "g", "e">>

MetricTypeCounter == <<"c", "o", "u", "n", "t", "e", "r">>

\* writeMetricNoLock appending the sample line without its newline
UpsertContentUnterminated(input, r) ==
  LET labelStr   == buildLabelString(r.job, r.labels)
      metricLine == MetricLine(r.name, labelStr, r.value)
      exactLit   == SampleIdentity(r.name, labelStr)
  IN  IF LinePatternMatch(input, exactLit)
      THEN LinePatternReplaceAll(input, exactLit, metricLine \o <<NL>>)
      ELSE addMetricHeaders(input, r.name, r.kind, r.help) \o metricLine

\* writeMetricNoLock, from the pattern match to the content handed to WriteFile
UpsertContent(input, r) ==
  LET labelStr   == buildLabelString(r.job, r.labels)
      metricLine == MetricLine(r.name, labelStr, r.value)
      exactLit   == SampleIdentity(r.name, labelStr)
  IN  IF LinePatternMatch(input, exactLit)
      THEN LinePatternReplaceAll(input, exactLit, metricLine \o <<NL>>)
      ELSE addMetricHeaders(input, r.name, r.kind, r.help) \o metricLine \o <<NL>>

\* counterPattern: name\{labels\} (\d+(?:\.\d+)?) , leftmost match
CounterMatchStarts(input, lit) ==
  {j \in 1..Len(input) :
     /\ HasPrefixAt(input, lit \o <<" ">>, j)
     /\ j + Len(lit) + 1 <= Len(input)
     /\ input[j + Len(lit) + 1] \in Digits}

\* matches[1] of counterPattern.FindSubmatch(input)
CounterCapture(input, lit) ==
  LET j  == Min(CounterMatchStarts(input, lit))
      d  == j + Len(lit) + 1
      e1 == RunEnd(input, d, Digits)
      e  == IF /\ e1 + 1 <= Len(input)
               /\ input[e1] = "."
               /\ input[e1 + 1] \in Digits
            THEN RunEnd(input, e1 + 1, Digits) ELSE e1
  IN  SubSeq(input, d, e - 1)

\* IncrementCounter after a successful ReadFile, up to the content handed to
\* WriteFile
IncrementContent(input, r, tieUp) ==
  LET labelStr == buildLabelString(r.job, r.labels)
      lit      == SampleIdentity(r.name, labelStr)
  IN  IF CounterMatchStarts(input, lit) # {}
      THEN LET currentStr == CounterCapture(input, lit)
               newValue   == incrementValue(currentStr, tieUp)
               oldLine    == MetricLine(r.name, labelStr, currentStr)
               newLine    == MetricLine(r.name, labelStr, newValue)
           IN  LinePatternReplaceAll(input, oldLine, newLine \o <<NL>>)
      ELSE addMetricHeaders(input, r.name, MetricTypeCounter, r.help)
           \o MetricLine(r.name, labelStr, <<"1">>) \o <<NL>>

(***************************************************************************)
(* State.                                                                  *)
(*                                                                         *)
(* One exposition file path.  The file system holds the parent directory   *)
(* (dirExists) and the file (fileExists, content).  lockHolder is the      *)
(* owner of the path's lock: the registry mutex of the in-memory locker,   *)
(* or the advisory lock on the sidecar file <path>.lock of the durable     *)
(* locker (0 = free).  Each writer is a goroutine or process inside one    *)
(* WriteMetric or IncrementCounter call: pc is its position, req its       *)
(* arguments, input the bytes it read, holds whether its Lock() returned   *)
(* with ownership.                                                         *)
(***************************************************************************)
VARIABLES
  useOsLock,   \* MetricWriter.useOsLock
  dirExists,   \* the parent directory of the path exists
  fileExists,  \* the exposition file exists
  content,     \* its bytes
  lockHolder,  \* owner of the path lock, 0 when free
  pc,          \* writer -> position in its call
  op,          \* writer -> "WriteMetric" | "IncrementCounter"
  req,         \* writer -> request record
  input,       \* writer -> bytes read from the file
  holds,       \* writer -> its locker owns the lock
  calls,       \* number of calls started (bounds the exploration)
  incCalls,    \* history: number of IncrementCounter calls started
  epoch,       \* history: the calls since the last quiescent state
  last,        \* history: the most recently completed call
  written,     \* history: identity -> value of its latest WriteMetric
  fnIn,        \* argument of a direct incrementValue application
  fnOut,       \* its result
  lockers,     \* locker -> its path and its position (lockers used directly)
  mutex,       \* locked resource -> the locker that acquired it, 0 when free
  fatal,       \* the process died of a runtime fatal error
  memLockers,  \* the registry of in-memory mutexes: path -> mutex, 0 when absent
  wrapper,     \* wrapper process -> its position in main() and what it wrote
  config,      \* Exporter.config
  env          \* the environment variable COLLECTOR_TEXTFILE_PATH

vars ==
  <<useOsLock, dirExists, fileExists, content, lockHolder, pc, op, req, input,
    holds, calls, incCalls, epoch, last, written, fnIn, fnOut,
    lockers, mutex, fatal, memLockers, wrapper, config, env>>

fsVars == <<dirExists, fileExists, content>>

lockVars == <<lockers, mutex, fatal, memLockers>>

expVars == <<config, env>>

runVars == <<wrapper>>

auxVars == <<fnIn, fnOut, lockVars, expVars, runVars>>

histVars == <<last, written, auxVars>>

\* ---- bounds ----
NumWriters == 2

MaxCalls == 3

Writers == 1..NumWriters

None == <<"<none>">>

\* ---- the inputs of the concurrent specification ----
Req(name, kind, job, labels, value, help) ==
  [name |-> name, kind |-> kind, job |-> job, labels |-> labels,
   value |-> value, help |-> help]

\* A label map is a set of <<key, value>> pairs; Go iterates a map in an
\* unspecified order, so each call draws one enumeration of the set.
NoLabels == {}

Orders(S) ==
  {f \in [1..Cardinality(S) -> S] : \A i, j \in 1..Cardinality(S) : i # j => f[i] # f[j]}

ConcWrites ==
  {Req(<<"m">>, MetricTypeGauge, <<"a">>, NoLabels, <<"1">>, <<"h">>),
   Req(<<"m">>, MetricTypeGauge, <<"b">>, NoLabels, <<"0">>, <<"h">>)}

ConcIncrements ==
  {Req(<<"c">>, MetricTypeCounter, <<"a">>, NoLabels, <<"1">>, <<"g">>)}

\* no call in progress (the labels of a call in progress are an enumeration)
NoReq == Req(<<>>, <<>>, <<>>, <<>>, <<>>, <<>>)

(***************************************************************************)
(* Reading the file as lines (used by the properties and the history       *)
(* variables, not by the writer).                                          *)
(***************************************************************************)
RECURSIVE SplitLines(_)
SplitLines(s) ==
  IF s = <<>> THEN <<>>
  ELSE IF NewlinesFrom(s, 1) = {} THEN <<s>>
  ELSE LET k == Min(NewlinesFrom(s, 1))
       IN  <<SubSeq(s, 1, k - 1)>> \o SplitLines(Tail2(s, k + 1))

\* the values of the sample lines of the identity  name{labelStr}
SampleValues(c, name, labelStr) ==
  LET id == SampleIdentity(name, labelStr) \o <<" ">>
      ls == SplitLines(c)
  IN  [i \in {k \in 1..Len(ls) : HasPrefixAt(ls[k], id, 1)} |->
         Tail2(ls[i], Len(id) + 1)]

HelpLines(c, name) ==
  LET ls == SplitLines(c)
  IN  {i \in 1..Len(ls) :
         HasPrefixAt(ls[i], <<"#", " ", "H", "E", "L", "P", " ">> \o name \o <<" ">>, 1)}

TypeLines(c, name) ==
  LET ls == SplitLines(c)
  IN  {i \in 1..Len(ls) :
         HasPrefixAt(ls[i], <<"#", " ", "T", "Y", "P", "E", " ">> \o name \o <<" ">>, 1)}

\* f with key k set to v
Put(f, k, v) == [x \in DOMAIN f \cup {k} |-> IF x = k THEN v ELSE f[x]]

TrackedCounter == CHOOSE r \in ConcIncrements : TRUE

TrackedValues(c) ==
  SampleValues(c, TrackedCounter.name,
               buildLabelString(TrackedCounter.job, <<>>))

\* the value of the tracked counter's sample, None unless exactly one exists
TrackedValue(c) ==
  LET vs == TrackedValues(c)
  IN  IF Cardinality(DOMAIN vs) = 1
      THEN vs[CHOOSE i \in DOMAIN vs : TRUE] ELSE None

(***************************************************************************)
(* Initial state: nothing written yet.  The parent directory may or may    *)
(* not exist and the writer is built with either locker.                   *)
(***************************************************************************)
NoEpoch == [v |-> None, returned |-> 0, pure |-> FALSE, overlap |-> FALSE]

NoLast == [op |-> "none", req |-> [NoReq EXCEPT !.labels = NoLabels],
           order |-> <<>>, labelStr |-> <<>>, exists |-> FALSE, before |-> <<>>, lockErr |-> FALSE, mkdirErr |-> FALSE,
           readErr |-> FALSE, done |-> FALSE]

\* ---- lockers used directly: two exposition paths ----
NumLockers == 3

MaxUnlocks == 2

Lockers == 1..NumLockers

Paths == {<<"p">>, <<"q">>}

\* the resource NewLocker locks for the durable locker: flock.New(path + ".lock")
LockDataFile(path) == path

LockPath(path) == path \o <<".", "l", "o", "c", "k">>

\* the flock of the durable locker is on LockPath(path); the registry of the
\* in-memory locker is keyed by the path itself
Resource(path) == IF useOsLock THEN LockPath(path) ELSE path

Resources == Paths \cup {LockPath(path) : path \in Paths}

NoLocker == [path |-> <<>>, st |-> "none", unlocks |-> 0]

\* defaultConfig (the file system and useOsLock are the writer's state)
defaultConfig ==
  [exporterDir |-> <<>>,
   exporterFilename |-> <<"c", "r", "o", "n", "s", ".", "p", "r", "o", "m">>,
   metricName |-> <<"c", "r", "o", "n", "t", "a", "b">>,
   metricDisabled |-> FALSE]

\* COLLECTOR_TEXTFILE_PATH is not set
NoEnv == [exists |-> FALSE, value |-> <<>>]

\* an Exporter built by NewExporter() without options
InitExporter == config = defaultConfig /\ env = NoEnv

\* memLockers = make(map[string]*sync.Mutex): no path has a mutex
EmptyRegistry == [map |-> [path \in Paths |-> 0], resets |-> 0]

InitLockers ==
  /\ lockers = [a \in Lockers |-> NoLocker]
  /\ mutex = [r \in Resources |-> 0]
  /\ fatal = FALSE
  /\ memLockers = EmptyRegistry

\* no wrapper process has been started
NoRun == [pc |-> "idle", outcome |-> "none", running |-> None, runs |-> 0]

InitWrapper == wrapper = [p \in Writers |-> NoRun]

InitCommon ==
  /\ InitLockers
  /\ InitWrapper
  /\ InitExporter
  /\ useOsLock \in BOOLEAN
  /\ dirExists \in BOOLEAN
  /\ fileExists = FALSE
  /\ content = <<>>
  /\ lockHolder = 0
  /\ pc = [p \in Writers |-> "idle"]
  /\ op = [p \in Writers |-> "none"]
  /\ req = [p \in Writers |-> NoReq]
  /\ input = [p \in Writers |-> <<>>]
  /\ holds = [p \in Writers |-> FALSE]
  /\ calls = 0
  /\ incCalls = 0
  /\ epoch = NoEpoch
  /\ last = NoLast
  /\ written = << >>
  /\ fnIn = None
  /\ fnOut = None

Init == InitCommon

(***************************************************************************)
(* The lockers (fslock.go, memlock.go).                                    *)
(***************************************************************************)
\* sync.Mutex.Lock / flock(LOCK_EX) return only when nobody owns it
MutexNeverBlocks(holder) == TRUE

MutexAvailable(holder) == holder = 0

\* fsLocker.Lock fails when the sidecar file <path>.lock cannot be opened:
\* flock opens it with O_CREATE inside the parent directory, which the
\* writer creates only after locking.  memLocker.Lock never fails.
LockFails == useOsLock /\ ~dirExists

Quiescent == \A p \in Writers : pc[p] = "idle"

StartEpoch(isIncrement) ==
  IF Quiescent
  THEN [v |-> IF fileExists THEN TrackedValue(content) ELSE None,
        returned |-> 0, pure |-> isIncrement, overlap |-> FALSE]
  ELSE [epoch EXCEPT !.pure = @ /\ isIncrement, !.overlap = TRUE]

\* entry of MetricWriter.WriteMetric: NewLocker, then Lock()
CallWriteMetric(p) ==
  /\ pc[p] = "idle"
  /\ calls < MaxCalls
  /\ \E r \in ConcWrites : \E ord \in Orders(r.labels) :
       req' = [req EXCEPT ![p] = [r EXCEPT !.labels = ord]]
  /\ op' = [op EXCEPT ![p] = "WriteMetric"]
  /\ pc' = [pc EXCEPT ![p] = "lock"]
  /\ calls' = calls + 1
  /\ incCalls' = incCalls
  /\ epoch' = StartEpoch(FALSE)
  /\ UNCHANGED <<useOsLock, fsVars, lockHolder, input, holds, histVars>>

\* entry of MetricWriter.IncrementCounter
CallIncrementCounter(p) ==
  /\ pc[p] = "idle"
  /\ calls < MaxCalls
  /\ \E r \in ConcIncrements : \E ord \in Orders(r.labels) :
       req' = [req EXCEPT ![p] = [r EXCEPT !.labels = ord]]
  /\ op' = [op EXCEPT ![p] = "IncrementCounter"]
  /\ pc' = [pc EXCEPT ![p] = "lock"]
  /\ calls' = calls + 1
  /\ incCalls' = incCalls + 1
  /\ epoch' = StartEpoch(TRUE)
  /\ UNCHANGED <<useOsLock, fsVars, lockHolder, input, holds, histVars>>

\* locker.Lock() returns nil: the caller owns the lock
LockAcquire(p) ==
  /\ pc[p] = "lock"
  /\ ~LockFails
  /\ MutexAvailable(lockHolder)
  /\ lockHolder' = p
  /\ holds' = [holds EXCEPT ![p] = TRUE]
  /\ pc' = [pc EXCEPT ![p] =
              IF op[p] = "WriteMetric" THEN "mkdir" ELSE "incread"]
  /\ UNCHANGED <<useOsLock, fsVars, op, req, input, calls, incCalls, epoch, histVars>>

\* locker.Lock() returns an error.  WriteMetric logs it and goes on without
\* the lock; IncrementCounter logs it and returns.
LockError(p) ==
  /\ pc[p] = "lock"
  /\ LockFails
  /\ pc' = [pc EXCEPT ![p] =
              IF op[p] = "WriteMetric" THEN "mkdir" ELSE "idle"]
  /\ op' = IF op[p] = "WriteMetric" THEN op ELSE [op EXCEPT ![p] = "none"]
  /\ req' = IF op[p] = "WriteMetric" THEN req ELSE [req EXCEPT ![p] = NoReq]
  /\ epoch' = IF op[p] = "WriteMetric" THEN epoch
              ELSE [epoch EXCEPT !.returned = @ + 1]
  /\ UNCHANGED <<useOsLock, fsVars, lockHolder, input, holds, calls, incCalls,
                 histVars>>

\* ensureDirectoryExists (of writeMetricNoLock): MkdirAll
EnsureDirectoryExists(p) ==
  /\ pc[p] = "mkdir"
  /\ dirExists' = TRUE
  /\ pc' = [pc EXCEPT ![p] = "read"]
  /\ UNCHANGED <<useOsLock, fileExists, content, lockHolder, op, req, input,
                 holds, calls, incCalls, epoch, histVars>>

\* readOrCreateFile: afero.ReadFile
ReadFile(p) ==
  /\ pc[p] = "read"
  /\ IF fileExists
     THEN /\ input' = [input EXCEPT ![p] = content]
          /\ pc' = [pc EXCEPT ![p] = "write"]
     ELSE /\ input' = input
          /\ pc' = [pc EXCEPT ![p] = "create"]
  /\ UNCHANGED <<useOsLock, fsVars, lockHolder, op, req, holds, calls, incCalls, epoch,
                 histVars>>

\* only a missing file is created; after any other read error the stored
\* content is kept and used
CreateIfMissing(p) ==
  /\ pc[p] = "create"
  /\ fileExists' = TRUE
  /\ content' = IF fileExists THEN content ELSE <<>>
  /\ input' = [input EXCEPT ![p] = IF fileExists THEN content ELSE <<>>]
  /\ pc' = [pc EXCEPT ![p] = "write"]
  /\ UNCHANGED <<useOsLock, dirExists, lockHolder, op, req, holds, calls, incCalls,
                 epoch, histVars>>

\* readOrCreateFile: the read failed, afero.WriteFile(path, []byte{})
CreateEmptyFile(p) ==
  /\ pc[p] = "create"
  /\ fileExists' = TRUE
  /\ content' = <<>>
  /\ input' = [input EXCEPT ![p] = <<>>]
  /\ pc' = [pc EXCEPT ![p] = "write"]
  /\ UNCHANGED <<useOsLock, dirExists, lockHolder, op, req, holds, calls, incCalls,
                 epoch, histVars>>

\* writeMetricNoLock: replace or append in memory, then afero.WriteFile opens
\* the file with O_CREATE|O_TRUNC: the file is empty until the data is written
WriteOpen(p) ==
  /\ pc[p] = "write"
  /\ fileExists' = TRUE
  /\ content' = <<>>
  /\ pc' = [pc EXCEPT ![p] = "wdata"]
  /\ UNCHANGED <<useOsLock, dirExists, lockHolder, op, req, input, holds,
                 calls, incCalls, epoch, histVars>>

\* afero.WriteFile: Write of the new content, Close
WriteBack(p) ==
  /\ pc[p] = "wdata"
  /\ fileExists' = TRUE
  /\ content' = UpsertContent(input[p], req[p])
  /\ pc' = [pc EXCEPT ![p] = "unlock"]
  /\ UNCHANGED <<useOsLock, dirExists, lockHolder, op, req, input, holds,
                 calls, incCalls, epoch, histVars>>

\* IncrementCounter falling back through WriteMetric, which locks again
IncReadFileRelock(p) ==
  /\ pc[p] = "incread"
  /\ IF fileExists
     THEN /\ input' = [input EXCEPT ![p] = content]
          /\ pc' = [pc EXCEPT ![p] = "incwrite"]
     ELSE /\ input' = input
          /\ pc' = [pc EXCEPT ![p] = "lock"]
  /\ UNCHANGED <<useOsLock, fsVars, lockHolder, op, req, holds, calls, incCalls, epoch,
                 histVars>>

\* IncrementCounter: afero.ReadFile; on an error it goes through
\* writeMetricNoLock with value "1"
IncReadFile(p) ==
  /\ pc[p] = "incread"
  /\ IF fileExists
     THEN /\ input' = [input EXCEPT ![p] = content]
          /\ pc' = [pc EXCEPT ![p] = "incwrite"]
     ELSE /\ input' = input
          /\ pc' = [pc EXCEPT ![p] = "mkdir"]
  /\ UNCHANGED <<useOsLock, fsVars, lockHolder, op, req, holds, calls, incCalls, epoch,
                 histVars>>

\* IncrementCounter: increment or append in memory (ensureDirectoryExists in
\* the append branch), then afero.WriteFile opens the file with O_TRUNC
IncWriteOpen(p) ==
  /\ pc[p] = "incwrite"
  /\ fileExists' = TRUE
  /\ dirExists' = TRUE
  /\ content' = <<>>
  /\ pc' = [pc EXCEPT ![p] = "incwdata"]
  /\ UNCHANGED <<useOsLock, lockHolder, op, req, input, holds, calls, incCalls, epoch,
                 histVars>>

\* afero.WriteFile: Write of the new content, Close
IncWriteBack(p) ==
  /\ pc[p] = "incwdata"
  /\ \E tieUp \in BOOLEAN :
       content' = IncrementContent(input[p], req[p], tieUp)
  /\ fileExists' = TRUE
  /\ pc' = [pc EXCEPT ![p] = "unlock"]
  /\ UNCHANGED <<useOsLock, dirExists, lockHolder, op, req, input, holds, calls,
                 incCalls, epoch, histVars>>

\* only WriteMetric releases the lock on return
UnlockWriteMetricOnly(p) ==
  /\ pc[p] = "unlock"
  /\ lockHolder' = IF holds[p] /\ op[p] = "WriteMetric" THEN 0 ELSE lockHolder
  /\ holds' = [holds EXCEPT ![p] = FALSE]
  /\ pc' = [pc EXCEPT ![p] = "idle"]
  /\ epoch' = IF op[p] = "IncrementCounter"
              THEN [epoch EXCEPT !.returned = @ + 1] ELSE epoch
  /\ written' = IF op[p] = "WriteMetric"
                THEN Put(written,
                         <<req[p].name, buildLabelString(req[p].job, req[p].labels)>>,
                         req[p].value)
                ELSE written
  /\ op' = [op EXCEPT ![p] = "none"]
  /\ req' = [req EXCEPT ![p] = NoReq]
  /\ input' = [input EXCEPT ![p] = <<>>]
  /\ UNCHANGED <<useOsLock, fsVars, calls, incCalls, last, auxVars>>

\* the deferred locker.Unlock(), and the return of the call
Unlock(p) ==
  /\ pc[p] = "unlock"
  /\ lockHolder' = IF holds[p] THEN 0 ELSE lockHolder
  /\ holds' = [holds EXCEPT ![p] = FALSE]
  /\ pc' = [pc EXCEPT ![p] = "idle"]
  /\ epoch' = IF op[p] = "IncrementCounter"
              THEN [epoch EXCEPT !.returned = @ + 1] ELSE epoch
  /\ written' = IF op[p] = "WriteMetric"
                THEN Put(written,
                         <<req[p].name, buildLabelString(req[p].job, req[p].labels)>>,
                         req[p].value)
                ELSE written
  /\ op' = [op EXCEPT ![p] = "none"]
  /\ req' = [req EXCEPT ![p] = NoReq]
  /\ input' = [input EXCEPT ![p] = <<>>]
  /\ UNCHANGED <<useOsLock, fsVars, calls, incCalls, last, auxVars>>

Next ==
  \E p \in Writers :
    \/ CallWriteMetric(p)
    \/ CallIncrementCounter(p)
    \/ LockAcquire(p)
    \/ LockError(p)
    \/ EnsureDirectoryExists(p)
    \/ ReadFile(p)
    \/ CreateEmptyFile(p)
    \/ WriteOpen(p)
    \/ WriteBack(p)
    \/ IncReadFile(p)
    \/ IncWriteOpen(p)
    \/ IncWriteBack(p)
    \/ Unlock(p)

Spec == Init /\ [][Next]_vars

(***************************************************************************)
(* Properties of the concurrent specification.                             *)
(***************************************************************************)
RECURSIVE DigitsToNat(_)
DigitsToNat(d) ==
  IF d = <<>> THEN 0 ELSE 10 * DigitsToNat(Front(d)) + DigitVal(d[Len(d)])

\* the writer has read (or failed to read) the file and not yet written back
InSection(p) ==
  \/ pc[p] \in {"create", "write", "wdata", "incwrite", "incwdata"}
  \/ op[p] = "IncrementCounter" /\ pc[p] \in {"mkdir", "read"}

\* C1: at most one writer at a time is between its read of the exposition
\* file and its write-back, with the in-memory and with the durable locker.
C1_MutualExclusion ==
  \A p, q \in Writers : (InSection(p) /\ InSection(q)) => p = q

\* C2: when the sample of a counter held the integer v in a quiescent state
\* and since then only IncrementCounter calls for it were issued, N of them,
\* possibly overlapping, and all have returned, the sample holds v + N.
C2_NoLostUpdates ==
  (Quiescent /\ epoch.pure /\ IsDigits(epoch.v)) =>
    /\ IsDigits(TrackedValue(content))
    /\ DigitsToNat(TrackedValue(content)) = DigitsToNat(epoch.v) + epoch.returned

\* two increments overlapped on an existing sample and both have returned
C2_Witness ==
  /\ Quiescent /\ epoch.pure /\ IsDigits(epoch.v)
  /\ epoch.overlap /\ epoch.returned >= 2

\* C7: samples written for different jobs under one metric name with the same
\* kind and help text, by sequential or concurrent writers, leave exactly one
\* HELP line, exactly one TYPE line and one sample line per label set.
C7_HeaderDedup ==
  Quiescent =>
    \A id \in DOMAIN written :
      /\ Cardinality(HelpLines(content, id[1])) = 1
      /\ Cardinality(TypeLines(content, id[1])) = 1
      /\ Cardinality(DOMAIN SampleValues(content, id[1], id[2])) = 1

\* C11: IncrementCounter calls and WriteMetric calls for other identities run
\* concurrently on one file; once all have returned, the counter equals its
\* initial value (0, the file starts absent) plus the number of increments
\* and every identity written by WriteMetric has exactly one sample line.
C11_BothPathsSerialised ==
  Quiescent =>
    /\ incCalls > 0 =>
         /\ IsDigits(TrackedValue(content))
         /\ DigitsToNat(TrackedValue(content)) = incCalls
    /\ \A id \in DOMAIN written :
         Cardinality(DOMAIN SampleValues(content, id[1], id[2])) = 1

\* C12: a reader that takes no lock sees, at every instant, the complete
\* content before a write or the complete content after it: no step of a
\* WriteMetric or IncrementCounter call leaves the file empty or truncated.
C12_AtomicWrites ==
  [][(<<fileExists, content>>' # <<fileExists, content>>) => content' # <<>>]_vars

(***************************************************************************)
(* Sequential specifications: one writer, each action a whole call         *)
(* (Lock, ensureDirectoryExists, read, replace or append, WriteFile,       *)
(* Unlock).  With one writer the lock is always free; the durable locker   *)
(* still fails while the parent directory is missing.                      *)
(***************************************************************************)
\* ---- inputs: identities, headers and labels ----
TwoLabels == {<<<<"k">>, <<"s">>>>, <<<<"l">>, <<"t">>>>}

SeqWrites ==
  {Req(<<"m">>, MetricTypeGauge, <<"a">>, NoLabels, <<"1">>, <<"h">>),
   Req(<<"m">>, MetricTypeGauge, <<"a">>, NoLabels, <<"0">>, <<"h">>),
   Req(<<"x", "m">>, MetricTypeGauge, <<"a">>, NoLabels, <<"1">>, <<"h">>),
   Req(<<"m">>, MetricTypeCounter, <<"b">>, NoLabels, <<"1">>, <<"g">>),
   Req(<<"m">>, MetricTypeGauge, <<"$", "b">>, NoLabels, <<"1">>, <<"h">>),
   Req(<<"m">>, MetricTypeGauge, <<"$", "b">>, NoLabels, <<"0">>, <<"h">>),
   Req(<<"m">>, MetricTypeGauge, <<"a">>, TwoLabels, <<"1">>, <<"h">>)}

SeqIncrements ==
  {Req(<<"m">>, MetricTypeCounter, <<"a">>, NoLabels, <<"1">>, <<"h">>),
   Req(<<"x", "m">>, MetricTypeCounter, <<"a">>, NoLabels, <<"1">>, <<"h">>)}

\* ---- inputs: values of one counter ----
ValValues ==
  {<<"0">>, <<"9">>, <<"4", "1">>, <<"0", "0", "7">>, MaxInt64Str,
   <<"3", ".", "1", "4">>, <<"1", "0", ".", "0", "0">>, <<"9", ".", "9">>,
   <<"0", ".", "9", "9", "9">>, <<"0", ".", "1", "2", "5">>,
   <<"1", ".">>, <<"1", "2", "x">>,
   <<"x">>, <<"-">>, <<"-", "5">>, <<>>}

ValWrites ==
  {Req(<<"c">>, MetricTypeCounter, <<"a">>, NoLabels, v, <<"g">>) : v \in ValValues}

ValIncrements ==
  {Req(<<"c">>, MetricTypeCounter, <<"a">>, NoLabels, <<"1">>, <<"g">>)}

\* the history of a completed call: its request (label map as given), the
\* order in which the label map was iterated, the label string it built, the file before it and whether its Lock() failed
Completed(o, r, ord) ==
  [op |-> o, req |-> r, order |-> ord,
   labelStr |-> buildLabelString(r.job, ord),
   exists |-> fileExists, before |-> content, lockErr |-> LockFails,
   mkdirErr |-> FALSE, readErr |-> FALSE, done |-> TRUE]

\* MetricWriter.WriteMetric, whole call
SeqWriteMetric(R) ==
  /\ calls < MaxCalls
  /\ \E r \in R : \E ord \in Orders(r.labels) :
       /\ content' = UpsertContent(IF fileExists THEN content ELSE <<>>,
                                   [r EXCEPT !.labels = ord])
       /\ last' = Completed("WriteMetric", r, ord)
       /\ written' = Put(written, <<r.name, buildLabelString(r.job, ord)>>, r.value)
  /\ fileExists' = TRUE
  /\ dirExists' = TRUE
  /\ calls' = calls + 1
  /\ incCalls' = incCalls
  /\ UNCHANGED <<useOsLock, lockHolder, pc, op, req, input, holds, epoch,
                 auxVars>>

\* IncrementCounter going on without the lock as WriteMetric does
SeqIncrementCounterLenient(R) ==
  /\ calls < MaxCalls
  /\ \E r \in R : \E ord \in Orders(r.labels) : \E tieUp \in BOOLEAN :
       /\ last' = Completed("IncrementCounter", r, ord)
       /\ content' =
            IF fileExists
            THEN IncrementContent(content, [r EXCEPT !.labels = ord], tieUp)
            ELSE UpsertContent(<<>>, [r EXCEPT !.labels = ord])
  /\ dirExists' = TRUE
  /\ fileExists' = TRUE
  /\ calls' = calls + 1
  /\ incCalls' = incCalls + 1
  /\ UNCHANGED <<useOsLock, lockHolder, pc, op, req, input, holds, epoch,
                 written, auxVars>>

\* MetricWriter.IncrementCounter, whole call
SeqIncrementCounter(R) ==
  /\ calls < MaxCalls
  /\ \E r \in R : \E ord \in Orders(r.labels) : \E tieUp \in BOOLEAN :
       /\ last' = Completed("IncrementCounter", r, ord)
       /\ IF LockFails
          THEN UNCHANGED fsVars
          ELSE /\ dirExists' = TRUE
               /\ fileExists' = TRUE
               /\ content' =
                    IF fileExists
                    THEN IncrementContent(content, [r EXCEPT !.labels = ord], tieUp)
                    ELSE UpsertContent(<<>>, [r EXCEPT !.labels = ord])
  /\ calls' = calls + 1
  /\ incCalls' = incCalls + 1
  /\ UNCHANGED <<useOsLock, lockHolder, pc, op, req, input, holds, epoch,
                 written, auxVars>>

NextSeq == SeqWriteMetric(SeqWrites) \/ SeqIncrementCounter(SeqIncrements)

SpecSeq == Init /\ [][NextSeq]_vars

NextVal == SeqWriteMetric(ValWrites) \/ SeqIncrementCounter(ValIncrements)

SpecVal == Init /\ [][NextVal]_vars

(***************************************************************************)
(* Properties of the sequential specifications.                            *)
(***************************************************************************)
IsHelpLine(l) == HasPrefixAt(l, <<"#", " ", "H", "E", "L", "P", " ">>, 1)

IsTypeLine(l) == HasPrefixAt(l, <<"#", " ", "T", "Y", "P", "E", " ">>, 1)

\* a line of the form  <name>{<labels>} <value>
IsSampleLine(l) ==
  /\ Len(l) > 0 /\ l[1] # "#"
  /\ \E i \in 2..Len(l) : \E j \in (i + 1)..(Len(l) - 1) :
       l[i] = "{" /\ l[j] = "}" /\ l[j + 1] = " " /\ j + 2 <= Len(l)

\* the metric name of a sample line: the text before its first brace
SampleName(l) == SubSeq(l, 1, Min({i \in 1..Len(l) : l[i] = "{"}) - 1)

\* C3: after every completed call each metric name that has a sample has
\* exactly one HELP line and exactly one TYPE line, and every other line is a
\* sample line  <name>{<labels>} <value>.
C3_FormatValid ==
  last.done =>
    LET ls == SplitLines(content)
    IN  \A i \in 1..Len(ls) :
          \/ IsHelpLine(ls[i])
          \/ IsTypeLine(ls[i])
          \/ /\ IsSampleLine(ls[i])
             /\ Cardinality(HelpLines(content, SampleName(ls[i]))) = 1
             /\ Cardinality(TypeLines(content, SampleName(ls[i]))) = 1

\* C4: after any sequence of WriteMetric calls the file holds at most one
\* sample line per (metric name, label string), carrying the value of the
\* latest write for that identity.
C4_UpsertNeverDuplicates ==
  incCalls = 0 =>
    \A id \in DOMAIN written :
      LET vs == SampleValues(content, id[1], id[2])
      IN  /\ Cardinality(DOMAIN vs) <= 1
          /\ \A i \in DOMAIN vs : vs[i] = written[id]

\* C5: the same WriteMetric call performed twice in a row leaves the file
\* byte-identical to its content after the first call.
C5_Idempotent ==
  [][(/\ last.op = "WriteMetric"
      /\ last'.op = "WriteMetric"
      /\ last'.req = last.req
      /\ calls' = calls + 1) => content' = content]_vars

\* the call found a sample line of its own identity in the file
FoundExisting ==
  /\ last.done /\ last.exists
  /\ DOMAIN SampleValues(last.before, last.req.name, last.labelStr) # {}

\* C6: when a call finds an existing sample line of its identity, exactly
\* that line changes: the number of lines is unchanged and every other line
\* is byte-identical and in the same position.
C6_ReplaceFrame ==
  FoundExisting =>
    LET old == SplitLines(last.before)
        new == SplitLines(content)
    IN  /\ Len(new) = Len(old)
        /\ \E i \in DOMAIN SampleValues(last.before, last.req.name, last.labelStr) :
             \A k \in 1..Len(old) : k # i => new[k] = old[k]

\* the sample values of the last call's identity, before and after it
ValuesBefore ==
  IF last.exists
  THEN SampleValues(last.before, last.req.name, last.labelStr) ELSE << >>

ValuesAfter ==
  IF fileExists
  THEN SampleValues(content, last.req.name, last.labelStr) ELSE << >>

TheValue(vs) == vs[CHOOSE i \in DOMAIN vs : TRUE]

C8_CounterInitAndIncrement ==
  (last.done /\ last.op = "IncrementCounter") =>
    /\ DOMAIN ValuesBefore = {} =>
         /\ Cardinality(DOMAIN ValuesAfter) = 1
         /\ TheValue(ValuesAfter) = <<"1">>
         /\ Contains(content, TypeData(last.req.name, MetricTypeCounter) \o <<NL>>)
    /\ (Cardinality(DOMAIN ValuesBefore) = 1 /\ IsDigits(TheValue(ValuesBefore))) =>
         /\ Cardinality(DOMAIN ValuesAfter) = 1
         /\ TheValue(ValuesAfter) = IncDigits(StripZeros(TheValue(ValuesBefore)))

\* a value no number syntax accepts
Unparseable(v) == ~ParseIntOk(v) /\ ~ParseFloatOk(v)

\* C9: when IncrementCounter finds its sample line holding a value that
\* cannot be parsed as a number, it replaces the line by one with value 1:
\* the identity still has exactly one sample line.
C9_ResetOnCorruption ==
  (/\ last.done /\ last.op = "IncrementCounter"
   /\ Cardinality(DOMAIN ValuesBefore) = 1
   /\ Unparseable(TheValue(ValuesBefore))) =>
    /\ Cardinality(DOMAIN ValuesAfter) = 1
    /\ TheValue(ValuesAfter) = <<"1">>

(***************************************************************************)
(* incrementValue applied directly (as TestIncrementValue does) to every   *)
(* short string over digits, the decimal point and a letter.               *)
(***************************************************************************)
MaxValueLen == 4

FnAlphabet == {"0", "1", "5", "9", ".", "x"}

FnInputs == UNION {[1..n -> FnAlphabet] : n \in 0..MaxValueLen}

InitFn ==
  /\ useOsLock = FALSE
  /\ dirExists = FALSE
  /\ fileExists = FALSE
  /\ content = <<>>
  /\ lockHolder = 0
  /\ pc = [p \in Writers |-> "idle"]
  /\ op = [p \in Writers |-> "none"]
  /\ req = [p \in Writers |-> NoReq]
  /\ input = [p \in Writers |-> <<>>]
  /\ holds = [p \in Writers |-> FALSE]
  /\ calls = 0
  /\ incCalls = 0
  /\ epoch = NoEpoch
  /\ last = NoLast
  /\ written = << >>
  /\ InitLockers
  /\ InitWrapper
  /\ InitExporter
  /\ fnIn \in FnInputs
  /\ fnOut = None

ApplyIncrementValue ==
  /\ fnOut = None
  /\ \E tieUp \in BOOLEAN : fnOut' = incrementValue(fnIn, tieUp)
  /\ UNCHANGED <<useOsLock, fsVars, lockHolder, pc, op, req, input, holds,
                 calls, incCalls, epoch, last, written, fnIn, lockVars, expVars, runVars>>

NextFn == ApplyIncrementValue

SpecFn == InitFn /\ [][NextFn]_vars

\* ---- reading decimal strings as numbers, independently of the writer ----
IntPart(s) == SubSeq(s, 1, DotPos(s) - 1)

FracPart(s) == Tail2(s, DotPos(s) + 1)

RECURSIVE Pow10(_)
Pow10(k) == IF k = 0 THEN 1 ELSE 10 * Pow10(k - 1)

\* the value of the decimal string s in units of 10^-k (k >= its fraction length)
Scaled(s, k) ==
  DigitsToNat(IntPart(s)) * Pow10(k)
  + DigitsToNat(FracPart(s)) * Pow10(k - Len(FracPart(s)))

HasTwoDecimals(s) ==
  /\ Contains(s, <<".">>)
  /\ IsDigits(IntPart(s))
  /\ IsDigits(FracPart(s)) /\ Len(FracPart(s)) = 2

Max2(a, b) == IF a >= b THEN a ELSE b

\* twice the distance between out and in + 1, in units of 10^-k
TwiceError(in, out) ==
  LET k == Max2(Len(FracPart(in)), 2)
      d == Scaled(out, k) - (Scaled(in, k) + Pow10(k))
  IN  2 * (IF d >= 0 THEN d ELSE 0 - d)

Res(a) == Resource(lockers[a].path)

\* fslock.NewLocker(path, useOsLock)
NewLocker(a) ==
  /\ ~fatal
  /\ lockers[a].st = "none"
  /\ \E path \in Paths :
       lockers' = [lockers EXCEPT ![a] = [path |-> path, st |-> "new", unlocks |-> 0]]
  /\ UNCHANGED <<useOsLock, fsVars, lockHolder, pc, op, req, input, holds,
                 calls, incCalls, epoch, last, written, fnIn, fnOut, mutex, fatal,
                 memLockers, expVars, runVars>>

\* Lock() is entered: fsLocker.Lock returns the error of TryLock when the
\* sidecar cannot be opened, otherwise the caller goes on to acquire
LockCall(a) ==
  /\ ~fatal
  /\ lockers[a].st = "new"
  /\ lockers' = [lockers EXCEPT ![a].st = IF LockFails THEN "failed" ELSE "waiting"]
  /\ UNCHANGED <<useOsLock, fsVars, lockHolder, pc, op, req, input, holds,
                 calls, incCalls, epoch, last, written, fnIn, fnOut, mutex, fatal,
                 memLockers, expVars, runVars>>

\* Lock() returns nil: m.mu.Lock() / TryLock or the blocking flock got the
\* resource
LockReturn(a) ==
  /\ ~fatal
  /\ lockers[a].st = "waiting"
  /\ MutexAvailable(mutex[Res(a)])
  /\ mutex' = [mutex EXCEPT ![Res(a)] = a]
  /\ lockers' = [lockers EXCEPT ![a].st = "held"]
  /\ UNCHANGED <<useOsLock, fsVars, lockHolder, pc, op, req, input, holds,
                 calls, incCalls, epoch, last, written, fnIn, fnOut, fatal,
                 memLockers, expVars, runVars>>

\* Unlock().  fsLocker: flock.Unlock releases when this descriptor holds the
\* lock and returns nil otherwise.  memLocker: m.mu.Unlock() unlocks the
\* shared mutex whoever locked it, and is a fatal error ("sync: unlock of
\* unlocked mutex") when it is not locked.
UnlockCall(a) ==
  /\ ~fatal
  /\ lockers[a].st \in {"held", "released", "failed"}
  /\ lockers[a].unlocks < MaxUnlocks
  /\ lockers' = [lockers EXCEPT ![a].unlocks = @ + 1,
                                ![a].st = IF @ = "held" THEN "released" ELSE @]
  /\ IF useOsLock
     THEN /\ mutex' = IF mutex[Res(a)] = a
                      THEN [mutex EXCEPT ![Res(a)] = 0] ELSE mutex
          /\ fatal' = fatal
     ELSE /\ mutex' = [mutex EXCEPT ![Res(a)] = 0]
          /\ fatal' = (mutex[Res(a)] = 0)
  /\ UNCHANGED <<useOsLock, fsVars, lockHolder, pc, op, req, input, holds,
                 calls, incCalls, epoch, last, written, fnIn, fnOut,
                 memLockers, expVars, runVars>>

\* the process of a durable locker dies while the locker holds the lock: its
\* descriptors are closed, and a flock lives no longer than its descriptor
Crash(a) ==
  /\ useOsLock
  /\ lockers[a].st = "held"
  /\ lockers' = [lockers EXCEPT ![a].st = "dead"]
  /\ mutex' = IF mutex[Res(a)] = a THEN [mutex EXCEPT ![Res(a)] = 0] ELSE mutex
  /\ UNCHANGED <<useOsLock, fsVars, lockHolder, pc, op, req, input, holds,
                 calls, incCalls, epoch, last, written, fnIn, fnOut, fatal,
                 memLockers, expVars, runVars>>

NextLock ==
  \E a \in Lockers :
    \/ NewLocker(a)
    \/ LockCall(a)
    \/ LockReturn(a)
    \/ UnlockCall(a)
    \/ Crash(a)

SpecLock == Init /\ [][NextLock]_vars

\* some Lock() that can return does, and some locker that holds a lock calls
\* its (deferred) Unlock() unless its process dies
SomeLockReturns == \E a \in Lockers : LockReturn(a)

SomeHolderUnlocks == \E a \in Lockers : lockers[a].st = "held" /\ UnlockCall(a)

SpecLockFair ==
  /\ SpecLock
  /\ WF_vars(SomeLockReturns)
  /\ WF_vars(SomeHolderUnlocks)

(***************************************************************************)
(* Properties of the lockers.                                              *)
(***************************************************************************)
\* C13: while one locker holds the lock of a path (its Lock() returned and
\* it has not called Unlock()), Lock() on another locker of the same path
\* has not returned; a locker waiting in Lock() is only ever kept waiting by
\* a locker of its own path.
C13_BlockingLock ==
  /\ \A a, b \in Lockers :
       (a # b /\ lockers[a].st = "held" /\ lockers[b].st = "held")
         => lockers[a].path # lockers[b].path
  /\ \A b \in Lockers :
       (lockers[b].st = "waiting" /\ mutex[Res(b)] # 0)
         => lockers[mutex[Res(b)]].path = lockers[b].path

\* C14: Unlock() on a locker that has already released its lock returns
\* normally and releases nobody's lock.
C14_UnlockRepeatSafe ==
  [][\A a \in Lockers :
       (lockers[a].st = "released" /\ lockers'[a].unlocks = lockers[a].unlocks + 1)
         => (~fatal' /\ mutex' = mutex)]_vars

IOWriter == 1

BeginCall(o, R) ==
  /\ pc[IOWriter] = "idle"
  /\ calls < MaxCalls
  /\ \E r \in R : \E ord \in Orders(r.labels) :
       /\ req' = [req EXCEPT ![IOWriter] = [r EXCEPT !.labels = ord]]
       /\ last' = [Completed(o, r, ord) EXCEPT !.done = FALSE]
  /\ op' = [op EXCEPT ![IOWriter] = o]
  /\ pc' = [pc EXCEPT ![IOWriter] = "lock"]
  /\ calls' = calls + 1
  /\ incCalls' = IF o = "IncrementCounter" THEN incCalls + 1 ELSE incCalls
  /\ UNCHANGED <<useOsLock, fsVars, lockHolder, input, holds, epoch, written,
                 auxVars>>

\* entry of MetricWriter.WriteMetric
BeginWriteMetric == BeginCall("WriteMetric", ConcWrites)

\* entry of MetricWriter.IncrementCounter
BeginIncrementCounter == BeginCall("IncrementCounter", ConcIncrements)

\* the failure of MkdirAll not reported as fatal: the call goes on
MkdirErrorIgnored(p) ==
  /\ pc[p] = "mkdir"
  /\ ~dirExists
  /\ last' = [last EXCEPT !.mkdirErr = TRUE]
  /\ pc' = [pc EXCEPT ![p] = "read"]
  /\ UNCHANGED <<useOsLock, fsVars, lockHolder, op, req, input, holds, calls,
                 incCalls, epoch, written, auxVars>>

\* ensureDirectoryExists: MkdirAll fails, log.Fatal ends the process
MkdirFatal(p) ==
  /\ pc[p] = "mkdir"
  /\ ~dirExists
  /\ last' = [last EXCEPT !.mkdirErr = TRUE]
  /\ pc' = [pc EXCEPT ![p] = "exited"]
  /\ UNCHANGED <<useOsLock, fsVars, lockHolder, op, req, input, holds, calls,
                 incCalls, epoch, written, auxVars>>

\* readOrCreateFile: afero.ReadFile of the existing file returns an error
ReadError(p) ==
  /\ pc[p] = "read"
  /\ fileExists
  /\ last' = [last EXCEPT !.readErr = TRUE]
  /\ pc' = [pc EXCEPT ![p] = "create"]
  /\ UNCHANGED <<useOsLock, fsVars, lockHolder, op, req, input, holds, calls,
                 incCalls, epoch, written, auxVars>>

\* readOrCreateFile: the WriteFile of the empty file fails too, the error is
\* returned and the caller ends the process with log.Fatal
CreateFatal(p) ==
  /\ pc[p] = "create"
  /\ pc' = [pc EXCEPT ![p] = "exited"]
  /\ UNCHANGED <<useOsLock, fsVars, lockHolder, op, req, input, holds, calls,
                 incCalls, epoch, last, written, auxVars>>

\* IncrementCounter: afero.ReadFile of the existing file returns an error; the
\* call goes through writeMetricNoLock with value "1"
IncReadError(p) ==
  /\ pc[p] = "incread"
  /\ fileExists
  /\ pc' = [pc EXCEPT ![p] = "mkdir"]
  /\ UNCHANGED <<useOsLock, fsVars, lockHolder, op, req, input, holds, calls,
                 incCalls, epoch, last, written, auxVars>>

NextIO ==
  \/ BeginWriteMetric
  \/ BeginIncrementCounter
  \/ LockAcquire(IOWriter)
  \/ LockError(IOWriter)
  \/ EnsureDirectoryExists(IOWriter)
  \/ MkdirFatal(IOWriter)
  \/ ReadFile(IOWriter)
  \/ ReadError(IOWriter)
  \/ CreateEmptyFile(IOWriter)
  \/ CreateFatal(IOWriter)
  \/ WriteOpen(IOWriter)
  \/ WriteBack(IOWriter)
  \/ IncReadFile(IOWriter)
  \/ IncReadError(IOWriter)
  \/ IncWriteOpen(IOWriter)
  \/ IncWriteBack(IOWriter)
  \/ Unlock(IOWriter)

SpecIO == Init /\ [][NextIO]_vars

\* the file a first write produces: HELP, TYPE and the sample line
ThreeLines(name, kind, help, labelStr, value) ==
  HelpData(name, help) \o <<NL>> \o TypeData(name, kind) \o <<NL>>
  \o MetricLine(name, labelStr, value) \o <<NL>>

\* C17: when creating the parent directory fails during a write, the process
\* ends inside the call (the call never returns) and the exposition file is
\* as it was when the call began: not created, truncated or modified.
C17_MkdirFailureFatal ==
  last.mkdirErr =>
    /\ pc[IOWriter] = "exited"
    /\ fileExists = last.exists
    /\ content = last.before

\* MkdirAll failed in a write to a path with no directory and no file
C17_Witness ==
  /\ last.mkdirErr /\ pc[IOWriter] = "exited"
  /\ ~dirExists /\ ~fileExists

\* C18: when the read of the existing file fails during WriteMetric and the
\* call completes, the file holds exactly the HELP, TYPE and sample line of
\* the request: every sample stored before is gone.
C18_ReadFailureAsNotFound ==
  (last.readErr /\ last.op = "WriteMetric" /\ pc[IOWriter] \in {"unlock", "idle"}) =>
    /\ fileExists
    /\ content = ThreeLines(last.req.name, last.req.kind, last.req.help,
                            last.labelStr, last.req.value)

\* a WriteMetric whose read failed completed on a file that held the sample
\* of another job
C18_Witness ==
  /\ last.readErr /\ last.op = "WriteMetric" /\ pc[IOWriter] = "idle"
  /\ last.exists
  /\ \E r \in ConcWrites :
       /\ r.job # last.req.job
       /\ DOMAIN SampleValues(last.before, r.name, buildLabelString(r.job, <<>>)) # {}
       /\ DOMAIN SampleValues(content, r.name, buildLabelString(r.job, <<>>)) = {}

\* the values WriteMetric is called with in the sequential specification
SeqValues == {r.value : r \in SeqWrites}

\* C19: a WriteMetric on a path with no file creates the directory and the
\* file with exactly the lines HELP, TYPE, sample, in this order; a following
\* WriteMetric of the same identity with another value yields the same file
\* with only the value at the end of the sample line changed.
C19_FirstWriteShape ==
  (last.done /\ last.op = "WriteMetric") =>
    LET r == last.req
    IN  /\ ~last.exists =>
             /\ dirExists /\ fileExists
             /\ content = ThreeLines(r.name, r.kind, r.help, last.labelStr, r.value)
        /\ \A ord \in Orders(r.labels) : \A v0 \in SeqValues \ {r.value} :
             (/\ last.exists
              /\ last.before = ThreeLines(r.name, r.kind, r.help,
                                          buildLabelString(r.job, ord), v0))
               => content = ThreeLines(r.name, r.kind, r.help,
                                       buildLabelString(r.job, ord), r.value)

(***************************************************************************)
(* escapeLabelValue applied directly (as TestEscapeLabelValue does) to     *)
(* every short string over backslash, double quote, newline and letters.   *)
(***************************************************************************)
EscAlphabet == {"\\", "\"", NL, "n", "a"}

EscInputs == UNION {[1..n -> EscAlphabet] : n \in 0..MaxValueLen}

InitEsc ==
  /\ InitLockers
  /\ InitWrapper
  /\ InitExporter
  /\ useOsLock = FALSE
  /\ dirExists = FALSE
  /\ fileExists = FALSE
  /\ content = <<>>
  /\ lockHolder = 0
  /\ pc = [p \in Writers |-> "idle"]
  /\ op = [p \in Writers |-> "none"]
  /\ req = [p \in Writers |-> NoReq]
  /\ input = [p \in Writers |-> <<>>]
  /\ holds = [p \in Writers |-> FALSE]
  /\ calls = 0
  /\ incCalls = 0
  /\ epoch = NoEpoch
  /\ last = NoLast
  /\ written = << >>
  /\ fnIn \in EscInputs
  /\ fnOut = None

ApplyEscapeLabelValue ==
  /\ fnOut = None
  /\ fnOut' = <<escapeLabelValue(fnIn)>>
  /\ UNCHANGED <<useOsLock, fsVars, lockHolder, pc, op, req, input, holds,
                 calls, incCalls, epoch, last, written, fnIn, lockVars, expVars, runVars>>

NextEsc == ApplyEscapeLabelValue

SpecEsc == InitEsc /\ [][NextEsc]_vars

\* the escape of one character
EscapeChar(c) ==
  IF c = "\\" THEN <<"\\", "\\">>
  ELSE IF c = "\"" THEN <<"\\", "\"">>
  ELSE IF c = NL THEN <<"\\", "n">>
  ELSE <<c>>

RECURSIVE EscapeEach(_)
EscapeEach(s) ==
  IF s = <<>> THEN <<>> ELSE EscapeChar(Head(s)) \o EscapeEach(Tail(s))

UnescapeSequential(t) ==
  LET t1 == stringsReplaceAll(t, <<"\\", "n">>, <<NL>>)
      t2 == stringsReplaceAll(t1, <<"\\", "\"">>, <<"\"">>)
      t3 == stringsReplaceAll(t2, <<"\\", "\\">>, <<"\\">>)
  IN  t3

\* one pass from the left that decodes each two-character escape
RECURSIVE UnescapeScan(_)
UnescapeScan(t) ==
  IF t = <<>> THEN <<>>
  ELSE IF t[1] = "\\" /\ Len(t) >= 2
       THEN (IF t[2] = "n" THEN <<NL>> ELSE <<t[2]>>) \o UnescapeScan(Tail2(t, 3))
       ELSE <<t[1]>> \o UnescapeScan(Tail(t))

\* C21 as stated: applying the three inverse substitutions in reverse order
\* (backslash-n to newline, backslash-quote to quote, double backslash to
\* backslash) to escapeLabelValue(s) returns s.
C21_RoundTripSequential ==
  fnOut # None => UnescapeSequential(fnOut[1]) = fnIn

\* C21 amended: escapeLabelValue(s) is decoded back to s by one pass from the
\* left that turns each two-character escape into its character (so the
\* escape is lossless); the three inverse substitutions one after the other
\* are not such a decoder.
C21_RoundTripScan ==
  fnOut # None => UnescapeScan(fnOut[1]) = fnIn

\* a backslash followed by the letter n was escaped and decoded
C21_Witness ==
  /\ fnOut # None
  /\ Contains(fnIn, <<"\\", "n">>)
  /\ UnescapeScan(fnOut[1]) = fnIn
  /\ UnescapeSequential(fnOut[1]) # fnIn

\* ---- label order ----
\* name="<job>" followed by one ,key="value" per pair of ord, in that order
RECURSIVE PairsText(_)
PairsText(ord) ==
  IF ord = <<>> THEN <<>>
  ELSE <<",">> \o EscapeEach(ord[1][1]) \o <<"=", "\"">> \o EscapeEach(ord[1][2])
       \o <<"\"">> \o PairsText(Tail(ord))

LabelText(job, ord) ==
  <<"n", "a", "m", "e", "=", "\"">> \o EscapeEach(job) \o <<"\"">> \o PairsText(ord)

\* C22: the label string is name="<job>" first and then the caller's labels
\* in the order the map was iterated; a WriteMetric call whose label map of
\* two or more entries is iterated in another order than the one that wrote
\* the sample already in the file does not replace that sample: both sample
\* lines are in the file afterwards.
C22_OrderSensitiveIdentity ==
  (last.done /\ last.op = "WriteMetric" /\ Cardinality(last.req.labels) >= 2) =>
    /\ last.labelStr = LabelText(last.req.job, last.order)
    /\ \A other \in Orders(last.req.labels) \ {last.order} :
         LET theirs == LabelText(last.req.job, other)
         IN  /\ theirs # last.labelStr
             /\ SampleValues(content, last.req.name, theirs)
                  = SampleValues(last.before, last.req.name, theirs)
             /\ DOMAIN SampleValues(content, last.req.name, last.labelStr) # {}

\* the same name, job and label map written in two iteration orders: the
\* file holds one sample line per order
C22_Witness ==
  /\ last.done /\ last.op = "WriteMetric" /\ Cardinality(last.req.labels) >= 2
  /\ \A ord \in Orders(last.req.labels) :
       DOMAIN SampleValues(content, last.req.name, LabelText(last.req.job, ord)) # {}

\* ---- lock discipline of the calls ----
\* the steps that change the metrics file: creating it empty and writing the
\* new content back (open with truncation, write)
Mutates(p) ==
  /\ pc[p] \in {"create", "write", "wdata", "incwrite", "incwdata"}
  /\ pc'[p] # pc[p]

\* C28: every mutation of the metrics file, the creation of the empty file
\* and the final write-back included, is done by a writer that holds the
\* path lock at that moment.
C28_MutationUnderLock ==
  [][\A p \in Writers : Mutates(p) => (holds[p] /\ lockHolder = p)]_vars

\* the call of p returns in this step
Returns(p) == pc[p] # "idle" /\ pc'[p] = "idle"

\* C30: the lock is released exactly once on every return path: a call that
\* holds the lock gives it up in the step in which it returns and in no
\* earlier step, so whenever no call is in progress the path lock is free.
C30_LockReleased ==
  /\ [](Quiescent => (lockHolder = 0 /\ \A p \in Writers : ~holds[p]))
  /\ [][\A p \in Writers :
          /\ Returns(p) => /\ ~holds'[p]
                           /\ holds[p] => (lockHolder = p /\ lockHolder' = 0)
          /\ (lockHolder = p /\ lockHolder' # p) => (Returns(p) /\ lockHolder' = 0)]_vars

\* IncrementCounter found no file, took the in-memory lock, initialised the
\* file through writeMetricNoLock and returned: the lock is free again
C30_Witness ==
  /\ ~useOsLock
  /\ calls = 1 /\ incCalls = 1
  /\ epoch.returned = 1
  /\ Quiescent
  /\ fileExists /\ TrackedValue(content) = <<"1">>
  /\ lockHolder = 0

\* ---- the writers on the in-memory lock ----
\* WithFileSystem: useOsLock = false, every writer of the process shares the
\* mutex of the path; Lock() cannot fail
InitMem == Init /\ ~useOsLock /\ ~dirExists

\* a step inside a call of p
Step(p) ==
  \/ LockAcquire(p)
  \/ EnsureDirectoryExists(p)
  \/ ReadFile(p)
  \/ CreateEmptyFile(p)
  \/ WriteOpen(p)
  \/ WriteBack(p)
  \/ IncReadFile(p)
  \/ IncWriteOpen(p)
  \/ IncWriteBack(p)
  \/ Unlock(p)

NextMem ==
  \E p \in Writers : CallWriteMetric(p) \/ CallIncrementCounter(p) \/ Step(p)

SpecMem == InitMem /\ [][NextMem]_vars

\* the positions inside a call
Positions ==
  {"lock", "mkdir", "read", "create", "write", "wdata", "incread",
   "incwrite", "incwdata", "unlock"}

\* Step(p) can be taken: p is inside a call and, where it waits in
\* mu.Lock(), the mutex is free (no other step of a call has a condition
\* beyond the position)
CanStep(p) ==
  /\ pc[p] \in Positions
  /\ pc[p] = "lock" => MutexAvailable(lockHolder)

\* some call moves on to its next position
Advance ==
  \E p \in Writers : \E l \in Positions \cup {"idle"} :
    /\ CanStep(p)
    /\ l # pc[p]
    /\ pc' = [pc EXCEPT ![p] = l]

\* the goroutines are scheduled: a call that can take a step takes one
SpecMemFair == SpecMem /\ WF_pc(Advance)

\* C29: with the non-reentrant in-memory lock a call never waits for a lock
\* it holds itself (each call acquires the lock at most once, the fallback
\* of IncrementCounter through writeMetricNoLock included), and every call
\* of every concurrent caller eventually returns.
C29_NoSelfDeadlock ==
  /\ [](\A p \in Writers : pc[p] = "lock" => (~holds[p] /\ lockHolder # p))
  /\ \A p \in Writers : (pc[p] # "idle") ~> (pc[p] = "idle")

\* IncrementCounter is in its fallback (no file) holding the lock while the
\* other writer waits for it
C29_Witness ==
  \E p, q \in Writers :
    /\ p # q
    /\ op[p] = "IncrementCounter" /\ holds[p] /\ lockHolder = p
    /\ pc[p] \in {"mkdir", "read", "create", "write", "wdata"}
    /\ pc[q] = "lock"

(***************************************************************************)
(* Exporter (exporter.go): the configuration, the path of the metrics      *)
(* file and the entry points in front of the MetricWriter.                 *)
(***************************************************************************)
\* strings.Split(s, "/")
RECURSIVE SplitSlash(_)
SplitSlash(s) ==
  LET slashes == {k \in 1..Len(s) : s[k] = "/"}
  IN  IF slashes = {} THEN <<s>>
      ELSE <<SubSeq(s, 1, Min(slashes) - 1)>> \o SplitSlash(Tail2(s, Min(slashes) + 1))

\* the elements of a path that filepath.Clean keeps: empty and "." elements
\* are dropped, ".." removes the element before it, is dropped at the root
\* and is kept at the start of a relative path
RECURSIVE CleanElements(_, _, _)
CleanElements(elems, out, rooted) ==
  IF elems = <<>> THEN out
  ELSE LET e == elems[1]
       IN  IF e = <<>> \/ e = <<".">>
           THEN CleanElements(Tail(elems), out, rooted)
           ELSE IF e = <<".", ".">>
           THEN IF out # <<>> /\ out[Len(out)] # <<".", ".">>
                THEN CleanElements(Tail(elems), SubSeq(out, 1, Len(out) - 1), rooted)
                ELSE IF rooted
                THEN CleanElements(Tail(elems), out, rooted)
                ELSE CleanElements(Tail(elems), Append(out, e), rooted)
           ELSE CleanElements(Tail(elems), Append(out, e), rooted)

RECURSIVE JoinSlash(_)
JoinSlash(elems) ==
  IF elems = <<>> THEN <<>>
  ELSE IF Len(elems) = 1 THEN elems[1]
  ELSE elems[1] \o <<"/">> \o JoinSlash(Tail(elems))

\* filepath.Clean
filepathClean(path) ==
  IF path = <<>> THEN <<".">>
  ELSE LET rooted == path[1] = "/"
           kept   == CleanElements(SplitSlash(path), <<>>, rooted)
       IN  IF rooted THEN <<"/">> \o JoinSlash(kept)
           ELSE IF kept = <<>> THEN <<".">>
           ELSE JoinSlash(kept)

\* filepath.Join(dir, filename): Clean of the elements from the first
\* non-empty one on, joined with "/"
filepathJoin(dir, filename) ==
  IF dir # <<>> THEN filepathClean(dir \o <<"/">> \o filename)
  ELSE IF filename # <<>> THEN filepathClean(filename)
  ELSE <<>>

DefaultExporterDir ==
  <<"/", "v", "a", "r", "/", "l", "i", "b", "/", "p", "r", "o", "m", "e", "t", "h", "e", "u", "s",
    "/", "n", "o", "d", "e", "-", "e", "x", "p", "o", "r", "t", "e", "r">>

\* the directory taken from the environment before the configured one
GetExporterPathEnvFirst(cfg, e) ==
  LET exporterDir ==
        IF e.exists /\ e.value # <<>> THEN e.value
        ELSE IF cfg.exporterDir # <<>> THEN cfg.exporterDir
        ELSE DefaultExporterDir
  IN  filepathJoin(exporterDir, cfg.exporterFilename)

\* Exporter.GetExporterPath
GetExporterPath(cfg, e) ==
  LET exporterDir ==
        IF cfg.exporterDir # <<>> THEN cfg.exporterDir
        ELSE IF e.exists /\ e.value # <<>> THEN e.value
        ELSE DefaultExporterDir
  IN  filepathJoin(exporterDir, cfg.exporterFilename)

\* ---- inputs: configurations of the path (TestGetExporterPath) ----
PathDirs ==
  {<<>>, <<"/", "c">>, <<"/", "c", "/">>, <<"c">>, <<"/", "c", "/", ".", ".", "/", "d">>}

PathFilenames == {defaultConfig.exporterFilename, <<"m", ".", "p">>, <<>>}

\* WithExporterDir, WithExporterFilename
PathConfigs ==
  {[defaultConfig EXCEPT !.exporterDir = d, !.exporterFilename = f] :
     d \in PathDirs, f \in PathFilenames}

PathEnvs ==
  {NoEnv} \cup {[exists |-> TRUE, value |-> v] :
                  v \in {<<>>, <<"/", "e">>, <<"e", "/">>}}

\* no writer is in a call, no file yet
InitIdle ==
  /\ InitLockers
  /\ InitWrapper
  /\ useOsLock = FALSE
  /\ dirExists = FALSE
  /\ fileExists = FALSE
  /\ content = <<>>
  /\ lockHolder = 0
  /\ pc = [p \in Writers |-> "idle"]
  /\ op = [p \in Writers |-> "none"]
  /\ req = [p \in Writers |-> NoReq]
  /\ input = [p \in Writers |-> <<>>]
  /\ holds = [p \in Writers |-> FALSE]
  /\ calls = 0
  /\ incCalls = 0
  /\ epoch = NoEpoch
  /\ last = NoLast
  /\ written = << >>
  /\ fnIn = None
  /\ fnOut = None

InitPath ==
  /\ InitIdle
  /\ config \in PathConfigs
  /\ env \in PathEnvs

ApplyGetExporterPath ==
  /\ fnOut = None
  /\ fnOut' = <<GetExporterPath(config, env)>>
  /\ UNCHANGED <<useOsLock, fsVars, lockHolder, pc, op, req, input, holds,
                 calls, incCalls, epoch, last, written, fnIn, lockVars, expVars, runVars>>

NextPath == ApplyGetExporterPath

SpecPath == InitPath /\ [][NextPath]_vars

\* a directory that is written as filepath.Clean leaves it
IsClean(dir) == filepathClean(dir) = dir

\* C24: GetExporterPath returns <dir>/<filename>, where dir is the
\* configured directory if it is not empty, else the value of
\* COLLECTOR_TEXTFILE_PATH if it is set and not empty, else
\* /var/lib/prometheus/node-exporter, and filename is the configured
\* filename (crons.prom by default).
C24_PathPrecedence ==
  fnOut # None =>
    LET dir == CASE config.exporterDir # <<>> -> config.exporterDir
                 [] config.exporterDir = <<>> /\ env.exists /\ env.value # <<>>
                      -> env.value
                 [] OTHER -> DefaultExporterDir
        literal == dir \o <<"/">> \o config.exporterFilename
    IN  /\ fnOut[1] = filepathClean(literal)
        /\ (IsClean(dir) /\ config.exporterFilename # <<>>) => fnOut[1] = literal

\* the environment variable is set and not empty, and the configured
\* directory wins over it
C24_Witness ==
  /\ fnOut # None
  /\ config.exporterDir = <<"/", "c">>
  /\ env.exists /\ env.value = <<"/", "e">>
  /\ config.exporterFilename = defaultConfig.exporterFilename
  /\ fnOut[1] = <<"/", "c", "/">> \o defaultConfig.exporterFilename

\* ---- the entry points of the Exporter ----
MaxExpCalls == 2

\* WithMetricName: the default prefix, the one of TestSetMetricName, and one
\* that a canonical metric name begins with
Prefixes ==
  {defaultConfig.metricName,
   <<"c", "u", "s", "t", "o", "m", "_", "m", "e", "t", "r", "i", "c">>,
   <<"r", "u", "n">>}

\* WithMetricName, WithMetricDisabled
ExpConfigs ==
  {[defaultConfig EXCEPT !.metricName = m, !.metricDisabled = d] :
     m \in Prefixes, d \in BOOLEAN}

\* the in-memory lock on an empty file system (WithFileSystem), or the
\* OS lock with the exporter directory in place
InitExp ==
  /\ InitLockers
  /\ InitWrapper
  /\ useOsLock \in BOOLEAN
  /\ dirExists = useOsLock
  /\ fileExists = FALSE
  /\ content = <<>>
  /\ lockHolder = 0
  /\ pc = [p \in Writers |-> "idle"]
  /\ op = [p \in Writers |-> "none"]
  /\ req = [p \in Writers |-> NoReq]
  /\ input = [p \in Writers |-> <<>>]
  /\ holds = [p \in Writers |-> FALSE]
  /\ calls = 0
  /\ incCalls = 0
  /\ epoch = NoEpoch
  /\ last = NoLast
  /\ written = << >>
  /\ fnIn = None
  /\ fnOut = None
  /\ config \in ExpConfigs
  /\ env = NoEnv

DimFailed == <<"f", "a", "i", "l", "e", "d">>
DimExitCode == <<"e", "x", "i", "t", "_", "c", "o", "d", "e">>
DimDuration == <<"d", "u", "r", "a", "t", "i", "o", "n">>
DimRun == <<"r", "u", "n">>
DimLast == <<"l", "a", "s", "t">>

\* metricMap[label] of WriteToExporter, None when the label is not a key
metricMap(label) ==
  CASE label = DimFailed -> <<"f", "a", "i", "l", "e", "d">>
    [] label = DimExitCode -> <<"e", "x", "i", "t", "_", "c", "o", "d", "e">>
    [] label = DimDuration ->
         <<"d", "u", "r", "a", "t", "i", "o", "n", "_", "s", "e", "c", "o",
           "n", "d", "s">>
    [] label = DimRun -> <<"r", "u", "n", "n", "i", "n", "g">>
    [] label = DimLast ->
         <<"l", "a", "s", "t", "_", "r", "u", "n", "_", "t", "i", "m", "e",
           "s", "t", "a", "m", "p", "_", "s", "e", "c", "o", "n", "d", "s">>
    [] OTHER -> None

GenericHelp ==
  <<"C", "r", "o", "n", " ", "j", "o", "b", " ", "e", "x", "e", "c",
           "u", "t", "i", "o", "n", " ", "m", "e", "t", "r", "i", "c", "s">>

\* helpText[metricName] of WriteToExporter, with its default
helpText(metricName) ==
  CASE metricName = <<"f", "a", "i", "l", "e", "d">> ->
         <<"W", "h", "e", "t", "h", "e", "r", " ", "t", "h", "e", " ", "j",
           "o", "b", " ", "f", "a", "i", "l", "e", "d", " ", "(", "1", " ",
           "=", " ", "f", "a", "i", "l", "e", "d", ",", " ", "0", " ", "=",
           " ", "s", "u", "c", "c", "e", "s", "s", ")">>
    [] metricName = <<"e", "x", "i", "t", "_", "c", "o", "d", "e">> ->
         <<"E", "x", "i", "t", " ", "c", "o", "d", "e", " ", "o", "f", " ",
           "t", "h", "e", " ", "l", "a", "s", "t", " ", "j", "o", "b", " ",
           "e", "x", "e", "c", "u", "t", "i", "o", "n">>
    [] metricName = <<"d", "u", "r", "a", "t", "i", "o", "n", "_", "s", "e", "c", "o",
           "n", "d", "s">> ->
         <<"D", "u", "r", "a", "t", "i", "o", "n", " ", "o", "f", " ", "t",
           "h", "e", " ", "l", "a", "s", "t", " ", "j", "o", "b", " ", "e",
           "x", "e", "c", "u", "t", "i", "o", "n", " ", "i", "n", " ", "s",
           "e", "c", "o", "n", "d", "s">>
    [] metricName = <<"r", "u", "n", "n", "i", "n", "g">> ->
         <<"W", "h", "e", "t", "h", "e", "r", " ", "t", "h", "e", " ", "j",
           "o", "b", " ", "i", "s", " ", "c", "u", "r", "r", "e", "n", "t",
           "l", "y", " ", "r", "u", "n", "n", "i", "n", "g", " ", "(", "1",
           " ", "=", " ", "r", "u", "n", "n", "i", "n", "g", ",", " ", "0",
           " ", "=", " ", "f", "i", "n", "i", "s", "h", "e", "d", ")">>
    [] metricName = <<"l", "a", "s", "t", "_", "r", "u", "n", "_", "t", "i", "m", "e",
           "s", "t", "a", "m", "p", "_", "s", "e", "c", "o", "n", "d", "s">> ->
         <<"T", "i", "m", "e", "s", "t", "a", "m", "p", " ", "o", "f", " ",
           "t", "h", "e", " ", "l", "a", "s", "t", " ", "j", "o", "b", " ",
           "e", "x", "e", "c", "u", "t", "i", "o", "n">>
    [] OTHER -> GenericHelp

\* strings.HasPrefix
HasPrefix(str, prefix) == HasPrefixAt(str, prefix, 1)

\* the history of a call of an entry point: the name handed to the
\* prefixing, the dimension of a legacy call, the request handed to the
\* MetricWriter (empty when disabled), the file before the call
ExpLast(entry, given, dimension, r, ord) ==
  [op |-> entry, given |-> given, dimension |-> dimension, req |-> r,
   order |-> ord,
   labelStr |-> IF r.name = <<>> THEN <<>> ELSE buildLabelString(r.job, ord),
   exists |-> fileExists, before |-> content, done |-> TRUE]

\* the writer starts the MetricWriter call o with request r
StartCall(o, r, entry, given, dimension, labels) ==
  /\ \E ord \in Orders(labels) :
       /\ req' = [req EXCEPT ![IOWriter] = [r EXCEPT !.labels = ord]]
       /\ last' = ExpLast(entry, given, dimension, r, ord)
  /\ op' = [op EXCEPT ![IOWriter] = o]
  /\ pc' = [pc EXCEPT ![IOWriter] = "lock"]
  /\ incCalls' = IF o = "IncrementCounter" THEN incCalls + 1 ELSE incCalls
  /\ UNCHANGED <<useOsLock, fsVars, lockHolder, input, holds, epoch, written,
                 auxVars>>

\* the entry point returns at once
ReturnDisabled(entry, given, dimension) ==
  /\ last' = ExpLast(entry, given, dimension, NoLast.req, <<>>)
  /\ UNCHANGED <<useOsLock, fsVars, lockHolder, pc, op, req, input, holds,
                 incCalls, epoch, written, auxVars>>

\* Exporter.writeMetric going on when metrics are disabled
ExporterWriteMetricAlways(entry, dimension, metricName, metricType, jobName, labels, value, help) ==
  /\ pc[IOWriter] = "idle"
  /\ calls < MaxExpCalls
  /\ calls' = calls + 1
  /\ LET basePrefix == config.metricName
         fullMetricName ==
           IF ~HasPrefix(metricName, basePrefix)
           THEN basePrefix \o <<"_">> \o metricName ELSE metricName
     IN  StartCall("WriteMetric",
                   Req(fullMetricName, metricType, jobName, labels, value, help),
                   entry, metricName, dimension, labels)

\* Exporter.writeMetric
ExporterWriteMetric(entry, dimension, metricName, metricType, jobName, labels, value, help) ==
  /\ pc[IOWriter] = "idle"
  /\ calls < MaxExpCalls
  /\ calls' = calls + 1
  /\ IF config.metricDisabled
     THEN ReturnDisabled(entry, metricName, dimension)
     ELSE LET basePrefix == config.metricName
              fullMetricName ==
                IF ~HasPrefix(metricName, basePrefix)
                THEN basePrefix \o <<"_">> \o metricName ELSE metricName
          IN  StartCall("WriteMetric",
                        Req(fullMetricName, metricType, jobName, labels, value, help),
                        entry, metricName, dimension, labels)

\* ---- inputs of the entry points ----
ExpJob == <<"j">>

ExpDimensions ==
  {DimFailed, DimExitCode, DimDuration, DimRun, DimLast, <<"x">>}

ExpGauge == <<"u", "p">>
ExpCounter == <<"r", "u", "n", "s">>

\* a metric name as given, and already carrying the prefix
Given(name) == {name, config.metricName \o <<"_">> \o name}

OneLabel == {<<<<"k">>, <<"s">>>>}

\* Exporter.WriteToExporter
WriteToExporter ==
  \E label \in ExpDimensions :
    LET metricName == metricMap(label)
    IN  IF metricName = None
        THEN ExporterWriteMetric("WriteToExporter", label,
               <<"c", "r", "o", "n", "t", "a", "b">>,
               MetricTypeGauge, ExpJob,
               {<<<<"d", "i", "m", "e", "n", "s", "i", "o", "n">>,
                  label>>},
               <<"1">>, GenericHelp)
        ELSE ExporterWriteMetric("WriteToExporter", label, metricName,
               MetricTypeGauge, ExpJob, NoLabels, <<"1">>, helpText(metricName))

\* Exporter.WriteGauge
WriteGauge ==
  \E name \in Given(ExpGauge) :
    ExporterWriteMetric("WriteGauge", None, name, MetricTypeGauge, ExpJob,
                        NoLabels, <<"1">>, <<"h">>)

\* Exporter.WriteGaugeWithLabels
WriteGaugeWithLabels ==
  \E name \in Given(ExpGauge) :
    ExporterWriteMetric("WriteGaugeWithLabels", None, name, MetricTypeGauge,
                        ExpJob, OneLabel, <<"1">>, <<"h">>)

\* Exporter.WriteCounter
WriteCounter ==
  \E name \in Given(ExpCounter) :
    ExporterWriteMetric("WriteCounter", None, name, MetricTypeCounter,
                        ExpJob, NoLabels, <<"1">>, <<"g">>)

\* Exporter.IncrementCounter
ExporterIncrementCounter ==
  /\ pc[IOWriter] = "idle"
  /\ calls < MaxExpCalls
  /\ calls' = calls + 1
  /\ \E metricName \in Given(ExpCounter) :
       IF config.metricDisabled
       THEN ReturnDisabled("IncrementCounter", metricName, None)
       ELSE LET basePrefix == config.metricName
                fullMetricName == basePrefix \o <<"_">> \o metricName
            IN  StartCall("IncrementCounter",
                          Req(fullMetricName, MetricTypeCounter, ExpJob, NoLabels,
                              <<"1">>, <<"g">>),
                          "IncrementCounter", metricName, None, NoLabels)

NextExp ==
  \/ WriteToExporter
  \/ WriteGauge
  \/ WriteGaugeWithLabels
  \/ WriteCounter
  \/ ExporterIncrementCounter
  \/ Step(IOWriter)

SpecExp == InitExp /\ [][NextExp]_vars

\* a call of an entry point was made and has returned
ExpReturned == last.op # "none" /\ pc[IOWriter] = "idle"

\* C23: with metrics disabled every entry point returns without acquiring a
\* lock and without touching a file or a directory, whatever was called.
C23_DisabledNoOp ==
  config.metricDisabled =>
    /\ ~fileExists /\ content = <<>>
    /\ dirExists = useOsLock
    /\ lockHolder = 0 /\ ~holds[IOWriter]
    /\ pc[IOWriter] = "idle" /\ op[IOWriter] = "none"

\* two calls were made on a disabled Exporter, the last one IncrementCounter
C23_Witness ==
  /\ config.metricDisabled
  /\ ~useOsLock
  /\ calls >= 2
  /\ last.op = "IncrementCounter"
  /\ ~fileExists /\ ~dirExists

\* the value of the only sample line of  name{labelStr}  is v
HasSample(name, labelStr, v) ==
  LET vs == SampleValues(content, name, labelStr)
  IN  Cardinality(DOMAIN vs) = 1 /\ \A i \in DOMAIN vs : vs[i] = v

\* an enabled entry point has returned from its call
ExpWrote == ExpReturned /\ ~config.metricDisabled

\* the name under the prefix: unchanged when it begins with the prefix
Prefixed(name) ==
  IF HasPrefix(name, config.metricName) THEN name
  ELSE config.metricName \o <<"_">> \o name

\* C25: every entry point (WriteGauge, WriteGaugeWithLabels, WriteCounter,
\* IncrementCounter, WriteToExporter) writes under <prefix>_<name>, unless
\* the name given already begins with the prefix: then the name is used
\* unchanged.
C25_IdempotentPrefix ==
  ExpWrote =>
    DOMAIN SampleValues(content, Prefixed(last.given), last.labelStr) # {}

\* the canonical metric of a known dimension
Canonical(dimension) ==
  CASE dimension = DimFailed -> <<"f", "a", "i", "l", "e", "d">>
    [] dimension = DimExitCode -> <<"e", "x", "i", "t", "_", "c", "o", "d", "e">>
    [] dimension = DimDuration ->
         <<"d", "u", "r", "a", "t", "i", "o", "n", "_", "s", "e", "c", "o",
           "n", "d", "s">>
    [] dimension = DimRun -> <<"r", "u", "n", "n", "i", "n", "g">>
    [] dimension = DimLast ->
         <<"l", "a", "s", "t", "_", "r", "u", "n", "_", "t", "i", "m", "e",
           "s", "t", "a", "m", "p", "_", "s", "e", "c", "o", "n", "d", "s">>

KnownDimensions == {DimFailed, DimExitCode, DimDuration, DimRun, DimLast}

NameOnly == LabelText(ExpJob, <<>>)

WithDimension(dimension) ==
  LabelText(ExpJob, <<<<<<"d", "i", "m", "e", "n", "s", "i", "o", "n">>,
                        dimension>>>>)

\* the generic metric of the other dimensions
GenericName == <<"c", "r", "o", "n", "t", "a", "b">>

\* a legacy call has returned
LegacyWrote == ExpWrote /\ last.op = "WriteToExporter"

\* C26 as stated: WriteToExporter writes a gauge under <prefix>_failed,
\* <prefix>_exit_code, <prefix>_duration_seconds, <prefix>_running or
\* <prefix>_last_run_timestamp_seconds for the known dimensions, with only
\* the name label; any other dimension goes to a generic metric whose sample
\* carries the label dimension="<dimension>".
C26_DimensionMapping ==
  LegacyWrote =>
    IF last.dimension \in KnownDimensions
    THEN /\ HasSample(config.metricName \o <<"_">> \o Canonical(last.dimension),
                      NameOnly, last.req.value)
         /\ last.req.kind = MetricTypeGauge
    ELSE /\ HasSample(Prefixed(GenericName), WithDimension(last.dimension),
                      last.req.value)
         /\ last.req.kind = MetricTypeGauge

\* C27: after WriteToExporter(job, label, value) with prefix P, for the
\* labels run, failed and duration, the file holds the line
\* "# TYPE P gauge" exactly once and the sample
\* P{name="<job>",dimension="<label>"} <value>.
C27_LegacyFormat ==
  (LegacyWrote /\ last.dimension \in {DimRun, DimFailed, DimDuration}) =>
    /\ Cardinality({i \in 1..Len(SplitLines(content)) :
                      SplitLines(content)[i]
                        = TypeData(config.metricName, MetricTypeGauge)}) = 1
    /\ HasSample(config.metricName, WithDimension(last.dimension), last.req.value)

\* ---- the append branch ----
\* the file the last call read: empty when there was none
Before == IF last.exists THEN last.before ELSE <<>>

\* the call got as far as looking for its sample (IncrementCounter returns
\* before that when its Lock() failed) and the file held no sample line of
\* its metric name and label string
FoundNone ==
  /\ last.done
  /\ ~(last.op = "IncrementCounter" /\ last.lockErr)
  /\ DOMAIN SampleValues(Before, last.req.name, last.labelStr) = {}

\* the value of the sample a call writes when it appends
AppendedValue == IF last.op = "IncrementCounter" THEN <<"1">> ELSE last.req.value

\* C31: when a WriteMetric or IncrementCounter call finds no sample line for
\* its (metric name, label string), the previous content is an exact byte
\* prefix of the new content, and what is appended is the HELP line (only if
\* the metric name has none), the TYPE line (only if the metric name has
\* none) and the new sample line as the last line of the file.
C31_AppendPrefixPreserving ==
  FoundNone =>
    content =
      Before
      \o (IF HelpLines(Before, last.req.name) = {}
          THEN HelpData(last.req.name, last.req.help) \o <<NL>> ELSE <<>>)
      \o (IF TypeLines(Before, last.req.name) = {}
          THEN TypeData(last.req.name, last.req.kind) \o <<NL>> ELSE <<>>)
      \o MetricLine(last.req.name, last.labelStr, AppendedValue) \o <<NL>>

\* ---- the replace branch ----
\* c has the line l
HasLine(c, l) == \E i \in 1..Len(SplitLines(c)) : SplitLines(c)[i] = l

\* C32: when an upsert replaces an existing sample line, the line in the
\* file afterwards is byte for byte <metric_name>{<label_string>} <value> as
\* built from the request (for IncrementCounter: with the incremented
\* value), also for job names, labels and values with characters special to
\* regular expressions or replacement templates.
C32_ReplacementVerbatim ==
  (FoundExisting /\ ~(last.op = "IncrementCounter" /\ last.lockErr)) =>
    IF last.op = "WriteMetric"
    THEN HasLine(content, MetricLine(last.req.name, last.labelStr, last.req.value))
    ELSE DOMAIN SampleValues(content, last.req.name, last.labelStr) # {}

(***************************************************************************)
(* WriteMetric with job names and labels that hold newline, double quote,  *)
(* backslash and braces: one writer, whole calls.                          *)
(***************************************************************************)
BraceLabel == {<<<<"m", "{", "n", "a", "m", "e">>, <<"a">>>>}

QuoteLabel == {<<<<"k", NL>>, <<"v", "\"">>>>}

LineWrites ==
  {Req(<<"m">>, MetricTypeGauge, <<"a", NL, "b">>, NoLabels, <<"1">>, <<"h">>),
   Req(<<"m">>, MetricTypeGauge, <<"a", "\"">>, NoLabels, <<"1">>, <<"h">>),
   Req(<<"m">>, MetricTypeGauge, <<"\\">>, NoLabels, <<"1">>, <<"h">>),
   Req(<<"m">>, MetricTypeGauge, <<"a">>, QuoteLabel, <<"1">>, <<"h">>),
   Req(<<"m">>, MetricTypeGauge, <<"j">>, BraceLabel, <<"1">>, <<"h">>),
   Req(<<"m">>, MetricTypeGauge, <<"a">>, NoLabels, <<"0">>, <<"h">>)}

NextLine == SeqWriteMetric(LineWrites)

SpecLine == Init /\ [][NextLine]_vars

\* the lines of c that are no comment lines
SampleCount(c) ==
  Cardinality({i \in 1..Len(SplitLines(c)) : SplitLines(c)[i][1] # "#"})

\* C33: the sample written by WriteMetric occupies exactly one line, for
\* every job name, label key and label value: a call for an identity that
\* has no sample line yet adds exactly one sample line, which is the last
\* line of the file and is the sample of the request.
C33_OneSampleOneLine ==
  (FoundNone /\ last.op = "WriteMetric") =>
    /\ SampleCount(content) = SampleCount(Before) + 1
    /\ SplitLines(content)[Len(SplitLines(content))]
         = MetricLine(last.req.name, last.labelStr, last.req.value)

\* ---- the end of the file ----
NewlineTerminated(c) == c = <<>> \/ c[Len(c)] = NL

\* C34: starting from an absent or empty file, after every completed
\* WriteMetric or IncrementCounter call the file is a sequence of lines each
\* terminated by a newline: it is empty or its last character is a newline.
C34_NewlineTerminated == NewlineTerminated(content)

\* an IncrementCounter call has replaced the line of its counter, which is
\* the last line of the file
C34_Witness ==
  /\ last.done /\ last.op = "IncrementCounter" /\ ~last.lockErr
  /\ FoundExisting
  /\ calls = MaxCalls
  /\ content # <<>> /\ content # Before

\* ---- counters under read failures ----
\* C35: a counter sample that holds a non-negative integer is left exactly
\* one greater by each completed IncrementCounter call, whatever the outcome
\* of the call's file reads, so its value never decreases.
C35_CounterMonotonic ==
  (/\ last.op = "IncrementCounter"
   /\ pc[IOWriter] \in {"unlock", "idle"}
   /\ Cardinality(DOMAIN ValuesBefore) = 1
   /\ IsDigits(TheValue(ValuesBefore))) =>
    /\ Cardinality(DOMAIN ValuesAfter) = 1
    /\ IsDigits(TheValue(ValuesAfter))
    /\ DigitsLeq(StripZeros(TheValue(ValuesBefore)), TheValue(ValuesAfter))
    /\ TheValue(ValuesAfter) = IncDigits(StripZeros(TheValue(ValuesBefore)))

(***************************************************************************)
(* One Exporter over its lifetime: GetExporterPath is called again and     *)
(* again while the process environment changes between the calls.         *)
(* fnIn keeps the first call's result and the directory the environment    *)
(* gave at that call, fnOut the same of the latest call, calls counts the  *)
(* calls.                                                                  *)
(***************************************************************************)
\* the directory COLLECTOR_TEXTFILE_PATH gives, empty when unset or empty
EnvDir(e) == IF e.exists /\ e.value # <<>> THEN e.value ELSE <<>>

\* Exporter.GetExporterPath, called on the Exporter built at Init
CallGetExporterPath ==
  /\ calls < MaxExpCalls
  /\ calls' = calls + 1
  /\ fnOut' = <<GetExporterPath(config, env), EnvDir(env)>>
  /\ fnIn' = IF calls = 0 THEN <<GetExporterPath(config, env), EnvDir(env)>>
             ELSE fnIn
  /\ UNCHANGED <<useOsLock, fsVars, lockHolder, pc, op, req, input, holds,
                 incCalls, epoch, last, written, lockVars, expVars, runVars>>

\* os.Setenv and os.Unsetenv of COLLECTOR_TEXTFILE_PATH by the process
Setenv ==
  /\ env' \in PathEnvs \ {env}
  /\ UNCHANGED <<useOsLock, fsVars, lockHolder, pc, op, req, input, holds,
                 calls, incCalls, epoch, last, written, fnIn, fnOut, lockVars,
                 config, runVars>>

NextEnv == CallGetExporterPath \/ Setenv

SpecEnv == InitPath /\ [][NextEnv]_vars

\* C36 as stated: two GetExporterPath calls on the same Exporter return the
\* same path regardless of changes made to COLLECTOR_TEXTFILE_PATH between
\* the calls.
C36_PathFixedAtConstruction ==
  calls >= 2 => fnOut[1] = fnIn[1]

\* C36 as the code has it: the configuration never changes after
\* construction and the path is resolved from it and from the environment
\* at every call, so two calls return the same path when the Exporter has a
\* directory option or the variable gives the same directory at both calls.
C36_PathFollowsEnvironment ==
  calls >= 2 =>
    /\ fnOut[1] \in {GetExporterPath(config, e) : e \in PathEnvs}
    /\ (config.exporterDir # <<>> \/ fnIn[2] = fnOut[2]) =>
         fnOut[1] = fnIn[1]

\* an Exporter with a directory option returned the same path twice although
\* the variable gave another directory at the first call
C36_Witness ==
  /\ calls = 2
  /\ config.exporterDir = <<"/", "c">>
  /\ fnIn[2] = <<>> /\ fnOut[2] = <<"/", "e">>
  /\ fnOut[1] = fnIn[1]
  /\ fnOut[1] = <<"/", "c", "/">> \o config.exporterFilename

(***************************************************************************)
(* The registry of the in-memory locker: newMemLocker looks the path up in *)
(* memLockers and allocates a mutex when it has none, ResetMemLockers      *)
(* replaces the map by an empty one.  Here mutex is the sequence of the    *)
(* allocated mutexes (0 when unlocked, else the locker that locked it) and *)
(* a locker keeps the index of its mutex; memLockers.resets and the gen    *)
(* of a locker are history: the number of resets so far and at the         *)
(* locker's construction.                                                  *)
(***************************************************************************)
MaxResets == 2

InitReg ==
  /\ InitWrapper
  /\ InitExporter
  /\ lockers = [a \in Lockers |-> NoLocker]
  /\ mutex = <<>>
  /\ fatal = FALSE
  /\ memLockers = EmptyRegistry
  /\ useOsLock = FALSE
  /\ dirExists = FALSE
  /\ fileExists = FALSE
  /\ content = <<>>
  /\ lockHolder = 0
  /\ pc = [p \in Writers |-> "idle"]
  /\ op = [p \in Writers |-> "none"]
  /\ req = [p \in Writers |-> NoReq]
  /\ input = [p \in Writers |-> <<>>]
  /\ holds = [p \in Writers |-> FALSE]
  /\ calls = 0
  /\ incCalls = 0
  /\ epoch = NoEpoch
  /\ last = NoLast
  /\ written = << >>
  /\ fnIn = None
  /\ fnOut = None

\* newMemLocker(path)
newMemLocker(a) ==
  /\ ~fatal
  /\ lockers[a].st = "none"
  /\ \E path \in Paths :
       IF memLockers.map[path] # 0
       THEN /\ lockers' = [lockers EXCEPT ![a] =
                 [path |-> path, st |-> "new", unlocks |-> 0,
                  mu |-> memLockers.map[path], gen |-> memLockers.resets]]
            /\ UNCHANGED <<mutex, memLockers>>
       ELSE /\ mutex' = Append(mutex, 0)
            /\ memLockers' = [memLockers EXCEPT !.map[path] = Len(mutex) + 1]
            /\ lockers' = [lockers EXCEPT ![a] =
                 [path |-> path, st |-> "new", unlocks |-> 0,
                  mu |-> Len(mutex) + 1, gen |-> memLockers.resets]]
  /\ UNCHANGED <<useOsLock, fsVars, lockHolder, pc, op, req, input, holds,
                 calls, incCalls, epoch, last, written, fnIn, fnOut, fatal,
                 expVars, runVars>>

\* memLocker.Lock: m.mu.Lock() returns once the mutex is unlocked
memLock(a) ==
  /\ ~fatal
  /\ lockers[a].st = "new"
  /\ mutex[lockers[a].mu] = 0
  /\ mutex' = [mutex EXCEPT ![lockers[a].mu] = a]
  /\ lockers' = [lockers EXCEPT ![a].st = "held"]
  /\ UNCHANGED <<useOsLock, fsVars, lockHolder, pc, op, req, input, holds,
                 calls, incCalls, epoch, last, written, fnIn, fnOut, fatal,
                 memLockers, expVars, runVars>>

\* memLocker.Unlock: m.mu.Unlock(), a fatal error on an unlocked mutex
memUnlock(a) ==
  /\ ~fatal
  /\ lockers[a].st \in {"held", "released"}
  /\ lockers[a].unlocks < MaxUnlocks
  /\ lockers' = [lockers EXCEPT ![a].unlocks = @ + 1, ![a].st = "released"]
  /\ mutex' = [mutex EXCEPT ![lockers[a].mu] = 0]
  /\ fatal' = (mutex[lockers[a].mu] = 0)
  /\ UNCHANGED <<useOsLock, fsVars, lockHolder, pc, op, req, input, holds,
                 calls, incCalls, epoch, last, written, fnIn, fnOut,
                 memLockers, expVars, runVars>>

\* ResetMemLockers keeping the map
ResetMemLockersKeepMap ==
  /\ ~fatal
  /\ memLockers.resets < MaxResets
  /\ memLockers' = [memLockers EXCEPT !.resets = @ + 1]
  /\ UNCHANGED <<useOsLock, fsVars, lockHolder, pc, op, req, input, holds,
                 calls, incCalls, epoch, last, written, fnIn, fnOut, lockers,
                 mutex, fatal, expVars, runVars>>

\* ResetMemLockers
ResetMemLockers ==
  /\ ~fatal
  /\ memLockers.resets < MaxResets
  /\ memLockers' = [map |-> EmptyRegistry.map, resets |-> memLockers.resets + 1]
  /\ UNCHANGED <<useOsLock, fsVars, lockHolder, pc, op, req, input, holds,
                 calls, incCalls, epoch, last, written, fnIn, fnOut, lockers,
                 mutex, fatal, expVars, runVars>>

NextReg ==
  \/ \E a \in Lockers : newMemLocker(a) \/ memLock(a) \/ memUnlock(a)
  \/ ResetMemLockers

SpecReg == InitReg /\ [][NextReg]_vars

Constructed == {a \in Lockers : lockers[a].st # "none"}

\* C37: lockers constructed for the same path between two resets share one
\* mutex, and a locker constructed after ResetMemLockers uses a mutex
\* different from the one of the lockers constructed for that path before
\* the reset, so its Lock() is never kept waiting by a pre-reset locker that
\* holds its lock.
C37_ResetFreshLocks ==
  \A a, b \in Constructed :
    lockers[a].path = lockers[b].path =>
      /\ (lockers[a].gen = lockers[b].gen) <=> (lockers[a].mu = lockers[b].mu)
      /\ (lockers[a].gen # lockers[b].gen) => mutex[lockers[b].mu] # a

\* a locker built after the reset holds its lock while a locker built for
\* the same path before the reset still holds its own
C37_Witness ==
  \E a, b \in Constructed :
    /\ lockers[a].path = lockers[b].path
    /\ lockers[a].gen = 0 /\ lockers[b].gen = 1
    /\ lockers[a].st = "held" /\ lockers[b].st = "held"
    /\ mutex[lockers[a].mu] = a /\ mutex[lockers[b].mu] = b

(***************************************************************************)
(* The wrapper: main() of cronmgr.  Each wrapper process runs the command  *)
(* of one job and reports through an Exporter built from its flags (the    *)
(* defaults: metric prefix crontab, metrics enabled, the durable locker).  *)
(* Every Exporter call is one step on the shared exposition file.  The     *)
(* clock readings the wrapper writes are one fixed text each.  Invocations *)
(* that overlap in time are not modelled.                                  *)
(***************************************************************************)
MaxRuns == 2

RunJob == <<"j">>

MetricRunning == <<"r", "u", "n", "n", "i", "n", "g">>

MetricRunsTotal == <<"r", "u", "n", "s", "_", "t", "o", "t", "a", "l">>

MetricDurationSeconds ==
  <<"d", "u", "r", "a", "t", "i", "o", "n", "_", "s", "e", "c", "o", "n",
    "d", "s">>

MetricLastRun ==
  <<"l", "a", "s", "t", "_", "r", "u", "n", "_", "t", "i", "m", "e", "s",
    "t", "a", "m", "p", "_", "s", "e", "c", "o", "n", "d", "s">>

RunsTotalHelp ==
  <<"T", "o", "t", "a", "l", " ", "n", "u", "m", "b", "e", "r", " ", "o",
    "f", " ", "j", "o", "b", " ", "r", "u", "n", "s">>

StatusLabel(status) == <<<<<<"s", "t", "a", "t", "u", "s">>, status>>>>

StatusStarted == <<"s", "t", "a", "r", "t", "e", "d">>

StatusSuccess == <<"s", "u", "c", "c", "e", "s", "s">>

StatusFailed == <<"f", "a", "i", "l", "e", "d">>

\* the invocations of the job follow one another in one process slot
Wrappers == {IOWriter}

InitRun ==
  /\ InitCommon
  /\ useOsLock

InProgress(p) == wrapper[p].pc \notin {"idle", "ended", "exited"}

\* Exporter.WriteGauge on the file, whole call
FileWriteGauge(metricName, value) ==
  IF config.metricDisabled
  THEN UNCHANGED fsVars
  ELSE LET basePrefix == config.metricName
           fullMetricName ==
             IF ~HasPrefix(metricName, basePrefix)
             THEN basePrefix \o <<"_">> \o metricName ELSE metricName
       IN  /\ content' = UpsertContent(IF fileExists THEN content ELSE <<>>,
                           Req(fullMetricName, MetricTypeGauge, RunJob, <<>>,
                               value, helpText(metricName)))
           /\ fileExists' = TRUE
           /\ dirExists' = TRUE

\* Exporter.IncrementCounter on the file, whole call
FileIncrementCounter(metricName, labels, help) ==
  IF config.metricDisabled \/ LockFails
  THEN UNCHANGED fsVars
  ELSE LET fullMetricName == config.metricName \o <<"_">> \o metricName
           r == Req(fullMetricName, MetricTypeCounter, RunJob, labels, <<"1">>, help)
       IN  /\ \E tieUp \in BOOLEAN :
                content' = IF fileExists
                           THEN IncrementContent(content, r, tieUp)
                           ELSE UpsertContent(<<>>, r)
           /\ fileExists' = TRUE
           /\ dirExists' = TRUE

\* a step of main() that touches the file only through the Exporter
RunStep(p, from, to) ==
  /\ wrapper[p].pc = from
  /\ wrapper' = [wrapper EXCEPT ![p].pc = to]
  /\ UNCHANGED <<useOsLock, lockHolder, pc, op, req, input, holds, calls,
                 incCalls, epoch, last, written, fnIn, fnOut, lockVars, expVars>>

\* main() up to the start of the ticker goroutine
Invoke(p) ==
  /\ wrapper[p].pc \in {"idle", "ended", "exited"}
  /\ wrapper[p].runs < MaxRuns
  /\ wrapper' = [wrapper EXCEPT ![p] = [pc |-> "count", outcome |-> "none",
                                         running |-> None, runs |-> @.runs + 1]]
  /\ UNCHANGED <<useOsLock, fsVars, lockHolder, pc, op, req, input, holds,
                 calls, incCalls, epoch, last, written, fnIn, fnOut, lockVars,
                 expVars>>

\* the ticker goroutine: exp.WriteGauge("duration_seconds", ...)
TickDuration(p) ==
  /\ InProgress(p)
  /\ FileWriteGauge(MetricDurationSeconds, <<"1", ".", "0", "0">>)
  /\ UNCHANGED <<useOsLock, lockHolder, pc, op, req, input, holds, calls,
                 incCalls, epoch, last, written, fnIn, fnOut, lockVars, expVars,
                 runVars>>

\* the ticker goroutine: exp.WriteGauge("last_run_timestamp_seconds", ...)
TickLastRun(p) ==
  /\ InProgress(p)
  /\ FileWriteGauge(MetricLastRun, <<"1">>)
  /\ UNCHANGED <<useOsLock, lockHolder, pc, op, req, input, holds, calls,
                 incCalls, epoch, last, written, fnIn, fnOut, lockVars, expVars,
                 runVars>>

\* exp.IncrementCounter("runs_total", ..., status started)
CountStarted(p) ==
  /\ RunStep(p, "count", "mark")
  /\ FileIncrementCounter(MetricRunsTotal, StatusLabel(StatusStarted), RunsTotalHelp)

\* exp.WriteGauge("running", ..., "1")
MarkRunning(p) ==
  /\ wrapper[p].pc = "mark"
  /\ wrapper' = [wrapper EXCEPT ![p].pc = "start", ![p].running = <<"1">>]
  /\ FileWriteGauge(MetricRunning, <<"1">>)
  /\ UNCHANGED <<useOsLock, lockHolder, pc, op, req, input, holds, calls,
                 incCalls, epoch, last, written, fnIn, fnOut, lockVars, expVars>>

\* cmd.Start() returns nil
CmdStart(p) ==
  /\ RunStep(p, "start", "wait")
  /\ UNCHANGED fsVars

\* cmd.Start() returns an error: log.Fatal(err)
CmdStartFatal(p) ==
  /\ RunStep(p, "start", "exited")
  /\ UNCHANGED fsVars

\* cmd.Wait() returns nil (then IdleWait)
CmdWaitSuccess(p) ==
  /\ wrapper[p].pc = "wait"
  /\ wrapper' = [wrapper EXCEPT ![p].pc = "failed", ![p].outcome = "success"]
  /\ UNCHANGED <<useOsLock, fsVars, lockHolder, pc, op, req, input, holds,
                 calls, incCalls, epoch, last, written, fnIn, fnOut, lockVars,
                 expVars>>

\* cmd.Wait() returns an *exec.ExitError (then IdleWait)
CmdWaitExitError(p) ==
  /\ wrapper[p].pc = "wait"
  /\ wrapper' = [wrapper EXCEPT ![p].pc = "failed", ![p].outcome = "failed"]
  /\ UNCHANGED <<useOsLock, fsVars, lockHolder, pc, op, req, input, holds,
                 calls, incCalls, epoch, last, written, fnIn, fnOut, lockVars,
                 expVars>>

\* cmd.Wait() returns another error: log.Fatalf("cmd.Wait: %v", err)
CmdWaitFatal(p) ==
  /\ RunStep(p, "wait", "exited")
  /\ UNCHANGED fsVars

\* exp.WriteGauge("failed", ...)
WriteFailed(p) ==
  /\ RunStep(p, "failed", "exitcode")
  /\ FileWriteGauge(DimFailed,
                    IF wrapper[p].outcome = "failed" THEN <<"1">> ELSE <<"0">>)

\* exp.WriteGauge("exit_code", ...)
WriteExitCode(p) ==
  /\ RunStep(p, "exitcode", "outcome")
  /\ FileWriteGauge(DimExitCode,
                    IF wrapper[p].outcome = "failed" THEN <<"2">> ELSE <<"0">>)

\* exp.IncrementCounter("runs_total", ..., status failed or success)
CountOutcome(p) ==
  /\ RunStep(p, "outcome", "unmark")
  /\ FileIncrementCounter(MetricRunsTotal,
       StatusLabel(IF wrapper[p].outcome = "failed"
                   THEN StatusFailed ELSE StatusSuccess),
       RunsTotalHelp)

\* exp.WriteGauge("running", ..., "0")
ClearRunning(p) ==
  /\ wrapper[p].pc = "unmark"
  /\ wrapper' = [wrapper EXCEPT ![p].pc = "duration", ![p].running = <<"0">>]
  /\ FileWriteGauge(MetricRunning, <<"0">>)
  /\ UNCHANGED <<useOsLock, lockHolder, pc, op, req, input, holds, calls,
                 incCalls, epoch, last, written, fnIn, fnOut, lockVars, expVars>>

\* exp.WriteGauge("duration_seconds", ...) with the final duration
WriteFinalDuration(p) ==
  /\ RunStep(p, "duration", "timestamp")
  /\ FileWriteGauge(MetricDurationSeconds, <<"1", ".", "0", "0">>)

\* exp.WriteGauge("last_run_timestamp_seconds", ...), then main returns
WriteLastRun(p) ==
  /\ RunStep(p, "timestamp", "ended")
  /\ FileWriteGauge(MetricLastRun, <<"1">>)

NextRun ==
  \E p \in Wrappers :
    \/ Invoke(p)
    \/ TickDuration(p)
    \/ TickLastRun(p)
    \/ CountStarted(p)
    \/ MarkRunning(p)
    \/ CmdStart(p)
    \/ CmdStartFatal(p)
    \/ CmdWaitSuccess(p)
    \/ CmdWaitExitError(p)
    \/ CmdWaitFatal(p)
    \/ WriteFailed(p)
    \/ WriteExitCode(p)
    \/ CountOutcome(p)
    \/ ClearRunning(p)
    \/ WriteFinalDuration(p)
    \/ WriteLastRun(p)

SpecRun == InitRun /\ [][NextRun]_vars

\* C38: the running gauge is written as 1 before the command is started, and
\* whenever the wrapper process ends after having written 1 (the command
\* succeeded, exited non-zero, could not be started, or waiting on it
\* failed), the last value it wrote for the running gauge is 0.
C38_RunningReturnsToZero ==
  \A p \in Wrappers :
    /\ wrapper[p].pc \in {"start", "wait"} => wrapper[p].running = <<"1">>
    /\ (wrapper[p].pc \in {"ended", "exited"} /\ wrapper[p].running # None) =>
         wrapper[p].running = <<"0">>

\* the value of runs_total{name="j",status="<status>"} in the file, 0 when
\* the file has no such sample
RunsTotal(status) ==
  LET vs == SampleValues(content, config.metricName \o <<"_">> \o MetricRunsTotal,
                         buildLabelString(RunJob, StatusLabel(status)))
  IN  IF DOMAIN vs = {} THEN 0 ELSE DigitsToNat(TheValue(vs))

\* C39: every invocation increments runs_total{status="started"} once and,
\* before it ends, one of runs_total{status="success"} and
\* runs_total{status="failed"} once: always started >= success + failed, and
\* started = success + failed whenever no invocation is in progress.
C39_RunCountersBalance ==
  /\ RunsTotal(StatusStarted) >= RunsTotal(StatusSuccess) + RunsTotal(StatusFailed)
  /\ (\A p \in Wrappers : ~InProgress(p)) =>
       RunsTotal(StatusStarted) = RunsTotal(StatusSuccess) + RunsTotal(StatusFailed)

====
